---- MODULE Spec2Model ----
(***************************************************************************)
(* Key pool manager (app/key_manager.py, app/models.py) and the request    *)
(* forwarding loop (app/proxy.py) of the Gemini key-pool proxy.            *)
(*                                                                         *)
(* The pool is PoolState: `keys` is the dict id -> ApiKey, kept here as    *)
(* the sequence of its values in dict insertion order, and                 *)
(* `last_reset_date` the Pacific date of the last daily reset.  A key id   *)
(* "key_<n>" is modelled by the number n.  time.time() is `now` (seconds)  *)
(* and datetime.now(pacific).date() is `today` (a day number); both only   *)
(* move forward.  ApiKey.last_used and ApiKey.last_error are written by    *)
(* record_request / record_error and read by no logic (only by             *)
(* _format_key_status), so they are not part of the state.                 *)
(***************************************************************************)
EXTENDS Integers, Sequences, FiniteSets, TLC

VARIABLES keys, last_reset_date, now, today, op, ret,
          lock, lpc, lkey, lused, crit, fwd

poolVars == <<keys, last_reset_date>>
clockVars == <<now, today>>
callVars == <<op, ret>>
lockVars == <<lock, lpc, lkey, lused, crit>>
fwdVars == <<fwd>>
vars == <<keys, last_reset_date, now, today, op, ret, lock, lpc, lkey, lused, crit, fwd>>

(***************************************************************************)
(* Bounds of the model.                                                    *)
(***************************************************************************)
NumSecrets == 2     \* secrets are 1..NumSecrets
MaxSeeds == 2       \* length of config.api_keys
MaxKeyId == 2       \* the ids that calls are made with are key_1..key_<MaxKeyId>
MaxKeys == 2        \* add_key adds no key to a pool of this many keys
MaxNewId == 3       \* add_key adds no key once key_<MaxNewId> is in the pool
MaxLimit == 2       \* rpd_limit and rpm_limit are drawn from 1..MaxLimit
MaxStamps == 1      \* record_request is not called on a key holding this many timestamps
MaxUsed == 2        \* record_request is not called on a key with this rpd_used
MaxFailures == 1    \* record_error is not called on a key with this many failures
MaxTicks == 2       \* the clock advances at most this many half windows
MaxDay == 1         \* the Pacific date advances at most this many days
NumTasks == 3       \* coroutines running record_request side by side
NumForwards == 2    \* proxy_request calls in flight
NumCallers == 2     \* tasks calling KeyManager coroutines, run one statement a step
max_retries == 2    \* config.max_retries
MaxChunks == 1      \* chunks relayed by one streaming response

(***************************************************************************)
(* Program constants.                                                      *)
(***************************************************************************)
Window == 60
STATUS_ACTIVE == "active"
STATUS_EXHAUSTED == "exhausted"

Secrets == 1..NumSecrets
KeyIds == 1..MaxKeyId
Limits == 1..MaxLimit
NoKey == 0          \* None where a key (or key id) is expected
Tasks == 1..NumTasks
FTasks == 1..NumForwards
NoTask == 0         \* the holder of a free lock
Callers == 1..NumCallers

(***************************************************************************)
(* models.py                                                               *)
(***************************************************************************)
ApiKey(id, key, rpd_limit, rpm_limit) ==
    [id |-> id, key |-> key, rpd_limit |-> rpd_limit, rpm_limit |-> rpm_limit,
     rpd_used |-> 0, rpm_timestamps |-> <<>>, consecutive_failures |-> 0,
     status |-> STATUS_ACTIVE]

rpd_remaining(k) == k.rpd_limit - k.rpd_used

\* mutant: `>=` for `>`, a timestamp of exactly 60 seconds ago is still counted
NewerThan_Inclusive(ts, cutoff_time) == SelectSeq(ts, LAMBDA t : t >= cutoff_time)

NewerThan(ts, cutoff_time) == SelectSeq(ts, LAMBDA t : t > cutoff_time)

rpm_current(k, current_time) ==
    Len(NewerThan(k.rpm_timestamps, current_time - Window))

(***************************************************************************)
(* dict helpers: pool.keys.get(key_id), `key_id in pool.keys`, del         *)
(***************************************************************************)
IndexOf(ks, key_id) ==
    IF \E i \in 1..Len(ks) : ks[i].id = key_id
    THEN CHOOSE i \in 1..Len(ks) : ks[i].id = key_id
    ELSE 0

HasKey(ks, key_id) == IndexOf(ks, key_id) # 0

GetKey(ks, key_id) == ks[IndexOf(ks, key_id)]

DelKey(ks, key_id) == SelectSeq(ks, LAMBDA k : k.id # key_id)

(***************************************************************************)
(* KeyManager.__init__                                                     *)
(***************************************************************************)
InitKeys(api_keys, default_rpd_limit, default_rpm_limit) ==
    [index \in 1..Len(api_keys) |->
        ApiKey(index, api_keys[index], default_rpd_limit, default_rpm_limit)]

(***************************************************************************)
(* KeyManager.check_and_reset_daily                                        *)
(***************************************************************************)
\* mutant: the reset reactivates the key and keeps its daily counter
ResetKey_KeepUsed(k) ==
    [k EXCEPT !.consecutive_failures = 0,
              !.status = IF @ = STATUS_EXHAUSTED THEN STATUS_ACTIVE ELSE @]

\* mutant: the reset forgets the failure counter
ResetKey_KeepFailures(k) ==
    [k EXCEPT !.rpd_used = 0,
              !.status = IF @ = STATUS_EXHAUSTED THEN STATUS_ACTIVE ELSE @]

ResetKey(k) ==
    [k EXCEPT !.rpd_used = 0,
              !.consecutive_failures = 0,
              !.status = IF @ = STATUS_EXHAUSTED THEN STATUS_ACTIVE ELSE @]

\* mutant: `<` for `<=`, so that a call on the day of the last reset resets again
SameDay_Strict(date, last) == date < last

SameDay(date, last) == date <= last

check_and_reset_daily(ks, last, date) ==
    IF SameDay(date, last)
    THEN [keys |-> ks, last_reset_date |-> last]
    ELSE [keys |-> [i \in 1..Len(ks) |-> ResetKey(ks[i])],
          last_reset_date |-> date]

(***************************************************************************)
(* KeyManager.select_key, the critical section                             *)
(***************************************************************************)
PruneKey(k, t) ==
    [k EXCEPT !.rpm_timestamps = NewerThan(@, t - Window)]

Prune(ks, t) == [i \in 1..Len(ks) |-> PruneKey(ks[i], t)]

\* mutant: the per-minute window is not consulted
IsAvailable_NoRpm(k, t) ==
    /\ k.status = STATUS_ACTIVE
    /\ rpd_remaining(k) > 0

\* mutant: a key with one request left is passed over
IsAvailable_OffByOne(k, t) ==
    /\ k.status = STATUS_ACTIVE
    /\ rpd_remaining(k) > 1
    /\ rpm_current(k, t) < k.rpm_limit

IsAvailable(k, t) ==
    /\ k.status = STATUS_ACTIVE
    /\ rpd_remaining(k) > 0
    /\ rpm_current(k, t) < k.rpm_limit

available_keys(ks, t) == SelectSeq(ks, LAMBDA k : IsAvailable(k, t))

\* list.sort(key=rpd_remaining, reverse=True): stable, descending
\* mutant: an unstable sort, equal keys end in reverse order
RECURSIVE InsertSorted_Unstable(_, _)
InsertSorted_Unstable(x, s) ==
    IF s = <<>> THEN <<x>>
    ELSE IF rpd_remaining(Head(s)) > rpd_remaining(x)
         THEN <<Head(s)>> \o InsertSorted_Unstable(x, Tail(s))
         ELSE <<x>> \o s

RECURSIVE InsertSorted(_, _)
InsertSorted(x, s) ==
    IF s = <<>> THEN <<x>>
    ELSE IF rpd_remaining(Head(s)) >= rpd_remaining(x)
         THEN <<Head(s)>> \o InsertSorted(x, Tail(s))
         ELSE <<x>> \o s

RECURSIVE SortByRemaining(_)
SortByRemaining(s) ==
    IF s = <<>> THEN <<>>
    ELSE InsertSorted(s[Len(s)], SortByRemaining(SubSeq(s, 1, Len(s) - 1)))

FirstOrNone(sorted) == IF sorted = <<>> THEN NoKey ELSE sorted[1].id

select_locked(ks, t) == FirstOrNone(SortByRemaining(available_keys(ks, t)))

\* mutant: the key returned is reserved, a timestamp being put into its window
select_key_Reserve(ks, last, date, t) ==
    LET p == check_and_reset_daily(ks, last, date)
        pruned == Prune(p.keys, t)
        chosen == select_locked(pruned, t)
    IN [keys |-> IF chosen = NoKey THEN pruned
                 ELSE [pruned EXCEPT ![IndexOf(pruned, chosen)].rpm_timestamps = Append(@, t)],
        last_reset_date |-> p.last_reset_date,
        result |-> chosen]

\* select_key: the reset check, then the critical section
select_key(ks, last, date, t) ==
    LET p == check_and_reset_daily(ks, last, date)
        pruned == Prune(p.keys, t)
    IN [keys |-> pruned, last_reset_date |-> p.last_reset_date,
        result |-> select_locked(pruned, t)]

(***************************************************************************)
(* KeyManager.record_request, record_error                                 *)
(***************************************************************************)
\* mutant: `>` for `>=`, the key is marked one request late
MarkIfSpent_Late(k) ==
    IF k.rpd_used > k.rpd_limit THEN [k EXCEPT !.status = STATUS_EXHAUSTED] ELSE k

MarkIfSpent(k) ==
    IF k.rpd_used >= k.rpd_limit THEN [k EXCEPT !.status = STATUS_EXHAUSTED] ELSE k

SetUsed(k, used) == [k EXCEPT !.rpd_used = used]

AppendStamp(k, t) == [k EXCEPT !.rpm_timestamps = Append(@, t)]

\* mutant: the request is counted twice
Charge_Twice(k, t) == AppendStamp(SetUsed(k, k.rpd_used + 2), t)

\* mutant: a request that was answered clears the failure count of its key
Charge_ClearFailures(k, t) ==
    [AppendStamp(SetUsed(k, k.rpd_used + 1), t) EXCEPT !.consecutive_failures = 0]

Charge(k, t) == AppendStamp(SetUsed(k, k.rpd_used + 1), t)

record_request(ks, key_id, t) ==
    IF ~HasKey(ks, key_id) THEN ks
    ELSE [ks EXCEPT ![IndexOf(ks, key_id)] = MarkIfSpent(Charge(@, t))]

\* mutant: any error exhausts the key
Fail_Always(k, is_rpd_limit) ==
    [k EXCEPT !.consecutive_failures = @ + 1, !.status = STATUS_EXHAUSTED]

\* mutant: a daily-limit error exhausts the key only once its counter is spent
Fail_OnlyIfSpent(k, is_rpd_limit) ==
    [k EXCEPT !.consecutive_failures = @ + 1,
              !.status = IF is_rpd_limit /\ k.rpd_used >= k.rpd_limit
                         THEN STATUS_EXHAUSTED ELSE @]

\* mutant: an error that is no daily-limit error puts the key back into use
Fail_Revive(k, is_rpd_limit) ==
    [k EXCEPT !.consecutive_failures = @ + 1,
              !.status = IF is_rpd_limit THEN STATUS_EXHAUSTED ELSE STATUS_ACTIVE]

Fail(k, is_rpd_limit) ==
    [k EXCEPT !.consecutive_failures = @ + 1,
              !.status = IF is_rpd_limit THEN STATUS_EXHAUSTED ELSE @]

\* mutant: an id that is not in the pool is given an entry
record_error_Insert(ks, key_id, is_rpd_limit) ==
    IF ~HasKey(ks, key_id)
    THEN Append(ks, Fail(ApiKey(key_id, 0, 1, 1), is_rpd_limit))
    ELSE [ks EXCEPT ![IndexOf(ks, key_id)] = Fail(@, is_rpd_limit)]

record_error(ks, key_id, is_rpd_limit) ==
    IF ~HasKey(ks, key_id) THEN ks
    ELSE [ks EXCEPT ![IndexOf(ks, key_id)] = Fail(@, is_rpd_limit)]

(***************************************************************************)
(* KeyManager.add_key, _next_key_id, remove_key                            *)
(***************************************************************************)
\* mutant: the keys are counted instead of their ids being compared
MaxId_Count(ks) == Len(ks)

RECURSIVE MaxId(_)
MaxId(ks) ==
    IF ks = <<>> THEN 0
    ELSE LET m == MaxId(Tail(ks)) IN IF Head(ks).id > m THEN Head(ks).id ELSE m

next_key_id(ks) == MaxId(ks) + 1

\* mutant: no secret is taken for one of the pool
KeyExists_Never(ks, api_key) == FALSE

\* `any(existing.key == api_key for existing in self.pool.keys.values())`
KeyExists(ks, api_key) == \E i \in 1..Len(ks) : ks[i].key = api_key

add_key(ks, api_key, rpd_limit, rpm_limit) ==
    Append(ks, ApiKey(next_key_id(ks), api_key, rpd_limit, rpm_limit))

\* mutant: the key inserted last is deleted, whatever the id asked for
remove_key_Last(ks, key_id) ==
    IF HasKey(ks, key_id) THEN SubSeq(ks, 1, Len(ks) - 1) ELSE ks

remove_key(ks, key_id) == DelKey(ks, key_id)

(***************************************************************************)
(* KeyManager.get_status: the counts of the dict it returns                *)
(***************************************************************************)
get_status(ks, last, t) ==
    [total_keys |-> Len(ks),
     available_keys |-> Cardinality({i \in 1..Len(ks) : IsAvailable(ks[i], t)}),
     exhausted_keys |-> Cardinality({i \in 1..Len(ks) : ks[i].status = STATUS_EXHAUSTED}),
     next_reset |-> last + 1]

\* the methods of KeyManager, and those of them that are coroutine functions
\* (`async def`)
KeyManagerMethods ==
    {"select_key", "record_request", "record_error", "check_and_reset_daily",
     "add_key", "remove_key", "get_status", "get_key_status", "_format_key_status",
     "_next_key_id"}

CoroutineMethods ==
    {"select_key", "record_request", "record_error", "check_and_reset_daily",
     "add_key", "remove_key"}

\* `await key_manager.<method>()`: the attribute lookup raises AttributeError for
\* a name that KeyManager does not have, and `await` raises TypeError on what a
\* plain function returns
AwaitRaises(method) ==
    method \notin KeyManagerMethods \/ method \notin CoroutineMethods

(***************************************************************************)
(* proxy.py: proxy_request and _handle_streaming_request.                  *)
(*                                                                         *)
(* fwd[t] is one call of proxy_request: pc is the await it is suspended    *)
(* at ("http": http_client.request, "sleep": asyncio.sleep,                *)
(* "stream_connect" and "relay": inside stream_generator) or "idle" /      *)
(* "done"; attempt is the loop index; selected and secret are              *)
(* selected_key.id and selected_key.key; response is what proxy_request    *)
(* returned; sent lists the credentials of the upstream requests made so   *)
(* far and selects counts the select_key calls.  The KeyManager coroutines *)
(* awaited by the loop never suspend (the lock is free whenever a task     *)
(* runs, since no critical section awaits), so a step runs from one        *)
(* suspension point to the next.                                           *)
(***************************************************************************)
\* an inbound request: its headers as dict(request.headers) holds them (names in
\* lower case, each once, in order) and its query string as the list of its raw
\* name=value fields
Pair(name, value) == [name |-> name, value |-> value]

Inbound(headers, query) == [headers |-> headers, query |-> query]

PlainRequest == Inbound(<<Pair("content-type", 7)>>, <<>>)

StreamRequest == Inbound(<<Pair("content-type", 7)>>, <<Pair("alt", "sse")>>)

\* requests that differ in what the caller put into them
Requests ==
    {PlainRequest, StreamRequest,
     Inbound(<<Pair("x-goog-api-key", 9), Pair("content-type", 7)>>,
             <<Pair("key", "caller")>>),
     Inbound(<<Pair("content-type", 7), Pair("x-goog-api-key", 1)>>,
             <<Pair("%6Bey", "caller")>>),
     Inbound(<<Pair("connection", 7), Pair("content-type", 7)>>,
             <<Pair("a+b", "bar"), Pair("Key", "caller")>>),
     Inbound(<<Pair("x-goog-api-key", 9), Pair("content-type", 7)>>,
             <<Pair("alt", "sse"), Pair("key", "caller")>>)}

HOP_BY_HOP_HEADERS ==
    {"host", "connection", "keep-alive", "transfer-encoding", "te", "trailer",
     "upgrade", "proxy-authorization", "proxy-authenticate", "content-encoding",
     "content-length"}

\* str.lower on the words that have an upper-case letter
LowerWord(w) ==
    CASE w = "Quota" -> "quota"
      [] w = "Daily" -> "daily"
      [] w = "Per" -> "per"
      [] OTHER -> w

Forwardable(name) ==
    LowerWord(name) \notin HOP_BY_HOP_HEADERS /\ LowerWord(name) # "x-goog-api-key"

prepare_headers(request_headers) ==
    SelectSeq(request_headers, LAMBDA h : Forwardable(h.name))

\* percent-decoding and percent-encoding of a field name, as parse_qsl and
\* urlencode do them
Unquote(name) ==
    CASE name = "%6Bey" -> "key"
      [] name = "a+b" -> "a b"
      [] OTHER -> name

Quote(name) ==
    CASE name = "a b" -> "a+b"
      [] OTHER -> name

parse_qsl(query_string) ==
    [i \in 1..Len(query_string) |->
        Pair(Unquote(query_string[i].name), query_string[i].value)]

urlencode(params) ==
    [i \in 1..Len(params) |-> Pair(Quote(params[i].name), params[i].value)]

\* mutant: the query string is re-encoded with every field kept
strip_key_from_query_Keep(query_string) == urlencode(parse_qsl(query_string))

strip_key_from_query(query_string) ==
    IF query_string = <<>> THEN <<>>
    ELSE urlencode(SelectSeq(parse_qsl(query_string), LAMBDA p : p.name # "key"))

\* query_params, the list handed to the upstream request
query_params(request) == parse_qsl(strip_key_from_query(request.query))

\* dict(query_params).get(name): the value of the last field of that name
RECURSIVE DictGet(_, _)
DictGet(params, name) ==
    IF params = <<>> THEN "None"
    ELSE IF params[Len(params)].name = name THEN params[Len(params)].value
         ELSE DictGet(SubSeq(params, 1, Len(params) - 1), name)

\* mutant: no request is taken for a streaming one
is_streaming_Never(request) == FALSE

is_streaming(request) == DictGet(query_params(request), "alt") = "sse"

\* {**headers, "x-goog-api-key": selected_key.key}
forward_headers(headers, secret) ==
    IF \E i \in 1..Len(headers) : headers[i].name = "x-goog-api-key"
    THEN [i \in 1..Len(headers) |->
             IF headers[i].name = "x-goog-api-key"
             THEN Pair("x-goog-api-key", secret) ELSE headers[i]]
    ELSE Append(headers, Pair("x-goog-api-key", secret))

\* the upstream request of one attempt, sent at time t
Outbound(request, id, secret, t) ==
    [id |-> id, key |-> secret, at |-> t,
     headers |-> forward_headers(prepare_headers(request.headers), secret),
     params |-> query_params(request)]

\* the bodies an upstream 429 may carry: json is whether response.json() parses,
\* dict whether data["error"] is a dict, message the words of error.message
Bodies ==
    {[json |-> TRUE, dict |-> TRUE, message |-> <<"Quota", "exceeded", "per", "day">>],
     [json |-> TRUE, dict |-> TRUE, message |-> <<"Daily", "limit", "reached">>],
     [json |-> TRUE, dict |-> TRUE, message |-> <<"Per", "minute", "limit">>],
     [json |-> TRUE, dict |-> TRUE, message |-> <<"per", "minute", "day">>],
     [json |-> TRUE, dict |-> FALSE, message |-> <<"quota", "exceeded", "per", "day">>],
     [json |-> FALSE, dict |-> FALSE, message |-> <<"daily">>]}

\* a body that is not looked at
NoBody == [json |-> FALSE, dict |-> FALSE, message |-> <<>>]

Lower(message) == [i \in 1..Len(message) |-> LowerWord(message[i])]

\* `"per day" in error_message or "daily" in error_message`
MentionsDay(words) ==
    \/ \E i \in 1..Len(words) - 1 : words[i] = "per" /\ words[i + 1] = "day"
    \/ \E i \in 1..Len(words) : words[i] = "daily"

\* mutant: no 429 is taken for a daily-limit error
IsRpdLimit_Never(body) == FALSE

IsRpdLimit(body) ==
    IF ~body.json THEN FALSE
    ELSE MentionsDay(Lower(IF body.dict THEN body.message ELSE <<>>))

\* mutant: the 503 carries no Retry-After
Unavailable_NoHint(kind) ==
    [status |-> 503, kind |-> kind, retry_after |-> 0, body |-> NoBody]

Unavailable(kind) ==
    [status |-> 503, kind |-> kind, retry_after |-> 60, body |-> NoBody]

\* mutant: the upstream's answer is handed on as a 200
Upstream_Ok(status, body) ==
    [status |-> 200, kind |-> "upstream", retry_after |-> 0, body |-> body]

Upstream(status, body) ==
    [status |-> status, kind |-> "upstream", retry_after |-> 0, body |-> body]

Streaming == [status |-> 200, kind |-> "stream", retry_after |-> 0, body |-> NoBody]

\* what a call has done so far, in order: its calls of the key manager
\* ("select_key" with the id returned and whether the daily reset ran,
\* "record_request", "record_error"), its
\* upstream requests ("request") and how each ended ("response", "raise"), and its
\* sleeps
Event(ev, id, flag, status, body) ==
    [ev |-> ev, id |-> id, flag |-> flag, status |-> status, body |-> body]

EvSelect(id, reset) == Event("select_key", id, reset, 0, NoBody)

EvRequest(id) == Event("request", id, FALSE, 0, NoBody)

EvResponse(id, status, body) == Event("response", id, FALSE, status, body)

EvRaise(id) == Event("raise", id, FALSE, 0, NoBody)

EvCharge(id) == Event("record_request", id, FALSE, 0, NoBody)

EvError(id, is_rpd) == Event("record_error", id, is_rpd, 0, NoBody)

EvSleep(id) == Event("sleep", id, FALSE, 0, NoBody)

(***************************************************************************)
(* The pool's operations called one at a time (tests, admin and SDK        *)
(* endpoints).  `op` is the call just made and `ret` what it returned.     *)
(***************************************************************************)
Call(name, id, flag) == [name |-> name, id |-> id, flag |-> flag]

SeedLists == UNION {[1..n -> Secrets] : n \in 1..MaxSeeds}

InitPool ==
    /\ \E api_keys \in SeedLists, rl \in Limits, ml \in Limits :
          keys = InitKeys(api_keys, rl, ml)
    /\ today = 0
    /\ last_reset_date = today
    /\ now = 0
    /\ op = Call("init", NoKey, FALSE)
    /\ ret = NoKey

\* a call of a KeyManager coroutine with its arguments (0 for one it does not take)
Invocation(name, key_id, is_rpd_limit, api_key, rpd_limit, rpm_limit) ==
    [name |-> name, id |-> key_id, flag |-> is_rpd_limit,
     key |-> api_key, rpd_limit |-> rpd_limit, rpm_limit |-> rpm_limit]

\* the pool as a critical section finds it when it is entered
Snapshot(ks, last, t) == [keys |-> ks, last_reset_date |-> last, now |-> t]

\* crit[t] is the KeyManager coroutine that task t runs: call is the coroutine and
\* its arguments, section the critical section it is running or about to run
\* (select_key runs that of check_and_reset_daily before its own), pc the
\* statement it stands at, date the local now_pacific.date(), result what it
\* returns and raised whether it raised; seen is the pool as the section found it
Resting ==
    [pc |-> "idle", call |-> Invocation("none", NoKey, FALSE, 0, 0, 0),
     section |-> "none", seen |-> Snapshot(<<>>, 0, 0), date |-> 0,
     result |-> NoKey, raised |-> FALSE]

InitLock ==
    /\ crit = [t \in Callers |-> Resting]
    /\ lock = NoTask
    /\ lpc = [t \in Tasks |-> "idle"]
    /\ lkey = [t \in Tasks |-> NoKey]
    /\ lused = [t \in Tasks |-> 0]

NoResponse == [status |-> 0, kind |-> "none", retry_after |-> 0, body |-> NoBody]

Idle ==
    [pc |-> "idle", request |-> Inbound(<<>>, <<>>), stream |-> FALSE, attempt |-> 0,
     selected |-> NoKey, secret |-> 0, response |-> NoResponse, sent |-> <<>>,
     selects |-> 0, log |-> <<>>, chunks |-> 0]

InitFwd == fwd = [t \in FTasks |-> Idle]

Init == InitPool /\ InitLock /\ InitFwd

SelectKey ==
    LET s == select_key(keys, last_reset_date, today, now)
    IN /\ keys' = s.keys
       /\ last_reset_date' = s.last_reset_date
       /\ ret' = s.result
       /\ op' = Call("select_key", NoKey, FALSE)
       /\ UNCHANGED <<clockVars, lockVars, fwdVars>>

RecordRequest(key_id) ==
    /\ HasKey(keys, key_id) =>
          /\ Len(GetKey(keys, key_id).rpm_timestamps) < MaxStamps
          /\ GetKey(keys, key_id).rpd_used < MaxUsed
    /\ keys' = record_request(keys, key_id, now)
    /\ op' = Call("record_request", key_id, FALSE)
    /\ ret' = NoKey
    /\ UNCHANGED <<last_reset_date, clockVars, lockVars, fwdVars>>

RecordError(key_id, is_rpd_limit) ==
    /\ HasKey(keys, key_id) => GetKey(keys, key_id).consecutive_failures < MaxFailures
    /\ keys' = record_error(keys, key_id, is_rpd_limit)
    /\ op' = Call("record_error", key_id, is_rpd_limit)
    /\ ret' = NoKey
    /\ UNCHANGED <<last_reset_date, clockVars, lockVars, fwdVars>>

CheckAndResetDaily ==
    LET p == check_and_reset_daily(keys, last_reset_date, today)
    IN /\ keys' = p.keys
       /\ last_reset_date' = p.last_reset_date
       /\ op' = Call("check_and_reset_daily", NoKey, FALSE)
       /\ ret' = NoKey
       /\ UNCHANGED <<clockVars, lockVars, fwdVars>>

\* a call of add_key with its arguments; flag is whether it raised ValueError
AddCall(api_key, rpd_limit, rpm_limit, raised) ==
    [name |-> "add_key", id |-> NoKey, flag |-> raised,
     key |-> api_key, rpd_limit |-> rpd_limit, rpm_limit |-> rpm_limit]

AddKey(api_key, rpd_limit, rpm_limit) ==
    IF KeyExists(keys, api_key)
    THEN \* the limits are not read on this path: one pair of them is enough
         /\ rpd_limit = MaxLimit /\ rpm_limit = MaxLimit
         /\ ret' = NoKey            \* raise ValueError
         /\ op' = AddCall(api_key, rpd_limit, rpm_limit, TRUE)
         /\ UNCHANGED <<poolVars, clockVars, lockVars, fwdVars>>
    ELSE /\ Len(keys) < MaxKeys
         /\ next_key_id(keys) <= MaxNewId
         /\ ret' = next_key_id(keys)
         /\ op' = AddCall(api_key, rpd_limit, rpm_limit, FALSE)
         /\ keys' = add_key(keys, api_key, rpd_limit, rpm_limit)
         /\ UNCHANGED <<last_reset_date, clockVars, lockVars, fwdVars>>

RemoveKey(key_id) ==
    /\ keys' = remove_key(keys, key_id)
    /\ ret' = IF HasKey(keys, key_id) THEN 1 ELSE 0
    /\ op' = Call("remove_key", key_id, FALSE)
    /\ UNCHANGED <<last_reset_date, clockVars, lockVars, fwdVars>>

Tick ==
    /\ now + Window \div 2 <= MaxTicks * (Window \div 2)
    /\ now' = now + Window \div 2
    /\ op' = Call("tick", NoKey, FALSE)
    /\ ret' = NoKey
    /\ UNCHANGED <<poolVars, today, lockVars, fwdVars>>

NextDay ==
    /\ today < MaxDay
    /\ today' = today + 1
    /\ op' = Call("next_day", NoKey, FALSE)
    /\ ret' = NoKey
    /\ UNCHANGED <<poolVars, now, lockVars, fwdVars>>

Next ==
    \/ SelectKey
    \/ \E key_id \in KeyIds : RecordRequest(key_id)
    \/ \E key_id \in KeyIds, is_rpd_limit \in BOOLEAN : RecordError(key_id, is_rpd_limit)
    \/ CheckAndResetDaily
    \/ \E api_key \in Secrets, rl \in Limits, ml \in Limits : AddKey(api_key, rl, ml)
    \/ \E key_id \in KeyIds : RemoveKey(key_id)
    \/ Tick
    \/ NextDay

Spec == Init /\ [][Next]_vars

(***************************************************************************)
(* record_request run by several coroutines at once                        *)
(* (asyncio.gather over manager.record_request calls), one statement a     *)
(* step: `async with self._lock` is an acquire and a release, and          *)
(* `key.rpd_used += 1` a read and a write.  lpc[t] is where coroutine t    *)
(* stands, lkey[t] its key_id, lused[t] the rpd_used it read.              *)
(***************************************************************************)
\* mutant: the critical section is entered without waiting for the lock
CanAcquire_Always(holder) == TRUE

CanAcquire(holder) == holder = NoTask

LockCall(t, key_id) ==
    /\ lpc[t] = "idle"
    /\ lpc' = [lpc EXCEPT ![t] = "acquire"]
    /\ lkey' = [lkey EXCEPT ![t] = key_id]
    /\ UNCHANGED <<poolVars, clockVars, callVars, fwdVars, crit, lock, lused>>

LockAcquire(t) ==
    /\ lpc[t] = "acquire"
    /\ CanAcquire(lock)
    /\ lock' = t
    /\ lpc' = [lpc EXCEPT ![t] = "load"]
    /\ UNCHANGED <<poolVars, clockVars, callVars, fwdVars, crit, lkey, lused>>

LockLoad(t) ==
    /\ lpc[t] = "load"
    /\ IF ~HasKey(keys, lkey[t])
       THEN /\ lpc' = [lpc EXCEPT ![t] = "release"]
            /\ UNCHANGED lused
       ELSE /\ lused' = [lused EXCEPT ![t] = GetKey(keys, lkey[t]).rpd_used]
            /\ lpc' = [lpc EXCEPT ![t] = "store"]
    /\ UNCHANGED <<poolVars, clockVars, callVars, fwdVars, crit, lock, lkey>>

LockStore(t) ==
    /\ lpc[t] = "store"
    /\ keys' = [keys EXCEPT ![IndexOf(keys, lkey[t])] = SetUsed(@, lused[t] + 1)]
    /\ lpc' = [lpc EXCEPT ![t] = "stamp"]
    /\ UNCHANGED <<last_reset_date, clockVars, callVars, fwdVars, crit, lock, lkey, lused>>

LockStamp(t) ==
    /\ lpc[t] = "stamp"
    /\ keys' = [keys EXCEPT ![IndexOf(keys, lkey[t])] = MarkIfSpent(AppendStamp(@, now))]
    /\ lpc' = [lpc EXCEPT ![t] = "release"]
    /\ UNCHANGED <<last_reset_date, clockVars, callVars, fwdVars, crit, lock, lkey, lused>>

LockRelease(t) ==
    /\ lpc[t] = "release"
    /\ lock' = NoTask
    /\ lpc' = [lpc EXCEPT ![t] = "done"]
    /\ UNCHANGED <<poolVars, clockVars, callVars, fwdVars, crit, lkey, lused>>

\* time passes while the coroutines run
Elapse ==
    /\ now + Window \div 2 <= MaxTicks * (Window \div 2)
    /\ now' = now + Window \div 2
    /\ UNCHANGED <<poolVars, today, callVars, lockVars, fwdVars>>

Midnight ==
    /\ today < MaxDay
    /\ today' = today + 1
    /\ UNCHANGED <<poolVars, now, callVars, lockVars, fwdVars>>

NextLock ==
    \/ \E t \in Tasks, key_id \in KeyIds : LockCall(t, key_id)
    \/ \E t \in Tasks : LockAcquire(t)
    \/ \E t \in Tasks : LockLoad(t)
    \/ \E t \in Tasks : LockStore(t)
    \/ \E t \in Tasks : LockStamp(t)
    \/ \E t \in Tasks : LockRelease(t)
    \/ Elapse

SpecLock == Init /\ [][NextLock]_vars

(***************************************************************************)
(* The coroutines of KeyManager run by several tasks, one statement a      *)
(* step.  A critical section is `async with self._lock:` and its body: an  *)
(* acquire, the statements of the body, none of which awaits, and a        *)
(* release.  Tasks may be scheduled between any two statements, which is   *)
(* more than the event loop allows.                                        *)
(***************************************************************************)
Invocations ==
    {Invocation("select_key", NoKey, FALSE, 0, 0, 0),
     Invocation("check_and_reset_daily", NoKey, FALSE, 0, 0, 0)}
        \cup {Invocation("record_request", key_id, FALSE, 0, 0, 0) : key_id \in KeyIds}
        \cup {Invocation("record_error", key_id, is_rpd_limit, 0, 0, 0) :
                 key_id \in KeyIds, is_rpd_limit \in BOOLEAN}
        \cup {Invocation("add_key", NoKey, FALSE, api_key, MaxLimit, 1) :
                 api_key \in Secrets}
        \cup {Invocation("remove_key", key_id, FALSE, 0, 0, 0) : key_id \in KeyIds}

\* select_key awaits check_and_reset_daily before it enters its own section
FirstSection(name) ==
    IF name = "select_key" THEN "check_and_reset_daily" ELSE name

FirstStatement(section) ==
    CASE section = "record_request" -> "get"
      [] section = "record_error" -> "get"
      [] section = "check_and_reset_daily" -> "date"
      [] section = "select_key" -> "prune"
      [] section = "add_key" -> "exists"
      [] section = "remove_key" -> "has"

\* task t stands inside a critical section
Inside(t) == crit[t].pc \notin {"idle", "acquire", "done"}

Begin(inv) ==
    [Resting EXCEPT !.pc = "acquire", !.call = inv, !.section = FirstSection(inv.name)]

\* a write to the key object that pool.keys.get(key_id) returned, which leaves the
\* object as new_key; once the key is deleted from the dict the object is no part
\* of the pool
Update(ks, key_id, new_key) ==
    IF HasKey(ks, key_id) THEN [ks EXCEPT ![IndexOf(ks, key_id)] = new_key] ELSE ks

\* task t goes on to statement pc
Goto(t, pc) == crit' = [crit EXCEPT ![t].pc = pc]

CritCall(t, inv) ==
    /\ crit[t].pc = "idle"
    /\ crit' = [crit EXCEPT ![t] = Begin(inv)]
    /\ UNCHANGED <<poolVars, clockVars, callVars, fwdVars, lock, lpc, lkey, lused>>

\* mutant: the lock is still held after the `async with` block
Unlock_Never(t) == t

\* Lock.release
Unlock(t) == NoTask

\* `async with self._lock:` is entered
CritAcquire(t) ==
    /\ crit[t].pc = "acquire"
    /\ CanAcquire(lock)
    /\ lock' = t
    /\ crit' = [crit EXCEPT ![t].pc = FirstStatement(crit[t].section),
                            ![t].seen = Snapshot(keys, last_reset_date, now)]
    /\ UNCHANGED <<poolVars, clockVars, callVars, fwdVars, lpc, lkey, lused>>

\* the `async with self._lock:` block is left; select_key goes on to its own
\* section, any other coroutine returns
CritRelease(t) ==
    /\ crit[t].pc = "release"
    /\ lock' = Unlock(t)
    /\ IF crit[t].section = "check_and_reset_daily" /\ crit[t].call.name = "select_key"
       THEN crit' = [crit EXCEPT ![t].pc = "acquire", ![t].section = "select_key"]
       ELSE Goto(t, "done")
    /\ UNCHANGED <<poolVars, clockVars, callVars, fwdVars, lpc, lkey, lused>>

\* the body of record_request
RecordRequestBody(t) ==
    /\ crit[t].section = "record_request"
    /\ LET key_id == crit[t].call.id
           key == GetKey(keys, key_id)
       IN \/ /\ crit[t].pc = "get"
             /\ Goto(t, IF HasKey(keys, key_id) THEN "count" ELSE "release")
             /\ UNCHANGED keys
          \/ /\ crit[t].pc = "count"
             /\ keys' = Update(keys, key_id, SetUsed(key, key.rpd_used + 1))
             /\ Goto(t, "stamp")
          \/ /\ crit[t].pc = "stamp"
             /\ keys' = Update(keys, key_id, AppendStamp(key, now))
             /\ Goto(t, "mark")
          \/ /\ crit[t].pc = "mark"
             /\ keys' = Update(keys, key_id, MarkIfSpent(key))
             /\ Goto(t, "release")
    /\ UNCHANGED <<last_reset_date, clockVars, callVars, fwdVars, lock, lpc, lkey, lused>>

\* the body of record_error
RecordErrorBody(t) ==
    /\ crit[t].section = "record_error"
    /\ LET key_id == crit[t].call.id
           key == GetKey(keys, key_id)
       IN \/ /\ crit[t].pc = "get"
             /\ Goto(t, IF HasKey(keys, key_id) THEN "count" ELSE "release")
             /\ UNCHANGED keys
          \/ /\ crit[t].pc = "count"
             /\ keys' = Update(keys, key_id,
                               [key EXCEPT !.consecutive_failures = @ + 1])
             /\ Goto(t, "mark")
          \/ /\ crit[t].pc = "mark"
             /\ keys' = IF crit[t].call.flag
                        THEN Update(keys, key_id, [key EXCEPT !.status = STATUS_EXHAUSTED])
                        ELSE keys
             /\ Goto(t, "release")
    /\ UNCHANGED <<last_reset_date, clockVars, callVars, fwdVars, lock, lpc, lkey, lused>>

\* the body of check_and_reset_daily
ResetBody(t) ==
    /\ crit[t].section = "check_and_reset_daily"
    /\ \/ /\ crit[t].pc = "date"
          /\ crit' = [crit EXCEPT ![t].date = today,
                                  ![t].pc = IF SameDay(today, last_reset_date)
                                            THEN "release" ELSE "reset"]
          /\ UNCHANGED poolVars
       \/ /\ crit[t].pc = "reset"
          /\ keys' = [i \in 1..Len(keys) |-> ResetKey(keys[i])]
          /\ Goto(t, "set_date")
          /\ UNCHANGED last_reset_date
       \/ /\ crit[t].pc = "set_date"
          /\ last_reset_date' = crit[t].date
          /\ Goto(t, "release")
          /\ UNCHANGED keys
    /\ UNCHANGED <<clockVars, callVars, fwdVars, lock, lpc, lkey, lused>>

\* the body of select_key's own section
SelectBody(t) ==
    /\ crit[t].section = "select_key"
    /\ \/ /\ crit[t].pc = "prune"
          /\ keys' = Prune(keys, now)
          /\ Goto(t, "pick")
       \/ /\ crit[t].pc = "pick"
          /\ crit' = [crit EXCEPT ![t].result = select_locked(keys, now),
                                  ![t].pc = "release"]
          /\ UNCHANGED keys
    /\ UNCHANGED <<last_reset_date, clockVars, callVars, fwdVars, lock, lpc, lkey, lused>>

\* the body of add_key
AddBody(t) ==
    /\ crit[t].section = "add_key"
    /\ LET inv == crit[t].call
       IN \/ /\ crit[t].pc = "exists"
             /\ crit' = [crit EXCEPT ![t].raised = KeyExists(keys, inv.key),
                                     ![t].pc = IF KeyExists(keys, inv.key)
                                               THEN "release" ELSE "insert"]
             /\ UNCHANGED keys
          \/ /\ crit[t].pc = "insert"
             /\ keys' = add_key(keys, inv.key, inv.rpd_limit, inv.rpm_limit)
             /\ crit' = [crit EXCEPT ![t].result = next_key_id(keys),
                                     ![t].pc = "release"]
    /\ UNCHANGED <<last_reset_date, clockVars, callVars, fwdVars, lock, lpc, lkey, lused>>

\* the body of remove_key; the result is 1 for True
RemoveBody(t) ==
    /\ crit[t].section = "remove_key"
    /\ LET key_id == crit[t].call.id
       IN \/ /\ crit[t].pc = "has"
             /\ Goto(t, IF HasKey(keys, key_id) THEN "del" ELSE "release")
             /\ UNCHANGED keys
          \/ /\ crit[t].pc = "del"
             /\ keys' = remove_key(keys, key_id)
             /\ crit' = [crit EXCEPT ![t].result = 1, ![t].pc = "release"]
    /\ UNCHANGED <<last_reset_date, clockVars, callVars, fwdVars, lock, lpc, lkey, lused>>

\* a statement of the coroutine that task t runs
CritStep(t) ==
    \/ CritAcquire(t)
    \/ RecordRequestBody(t)
    \/ RecordErrorBody(t)
    \/ ResetBody(t)
    \/ SelectBody(t)
    \/ AddBody(t)
    \/ RemoveBody(t)
    \/ CritRelease(t)

\* no task stands inside a critical section: a section takes no time on a clock
\* that moves in half windows
Quiet == \A t \in Callers : ~Inside(t)

NextCrit ==
    \/ \E t \in Callers, inv \in Invocations : CritCall(t, inv)
    \/ \E t \in Callers : CritStep(t)
    \/ Quiet /\ Elapse
    \/ Quiet /\ Midnight

SpecCrit == Init /\ [][NextCrit]_vars

(***************************************************************************)
(* proxy.py: the loop of proxy_request and the streaming generator, one     *)
(* step from a suspension point to the next.                               *)
(***************************************************************************)
\* mutant: the loop runs once more than config.max_retries
AttemptsLeft_OneMore(attempt) == attempt <= max_retries

\* `for attempt in range(config.max_retries)`
AttemptsLeft(attempt) == attempt < max_retries

\* mutant: a 429 is handed to the caller like any other status
IsRateLimited_Never(status) == FALSE

\* `if response.status_code == 429`
IsRateLimited(status) == status = 429

\* mutant: a key is asked of the pool on every iteration
Reuses_Never(reuse) == FALSE

\* `if selected_key is None` after `selected_key = reuse_key`
Reuses(reuse) == reuse # NoKey

\* One pass of the loop from its head, for a call standing at `attempt` with
\* reuse_key = reuse (NoKey for None), on the pool (ks, last): up to the return or
\* to the next await that suspends.
Iterate(ks, last, f, attempt, reuse) ==
    IF ~AttemptsLeft(attempt)
    THEN [keys |-> ks, last_reset_date |-> last,
          fwd |-> [f EXCEPT !.pc = "done", !.attempt = attempt,
                            !.response = Unavailable("attempts")]]
    ELSE LET s == IF Reuses(reuse)
                  THEN [keys |-> ks, last_reset_date |-> last, result |-> reuse]
                  ELSE select_key(ks, last, today, now)
             calls == IF Reuses(reuse) THEN f.selects ELSE f.selects + 1
             asked == IF Reuses(reuse) THEN f.log ELSE Append(f.log, EvSelect(s.result, s.last_reset_date # last))
             secret == IF ~Reuses(reuse) /\ s.result # NoKey
                       THEN GetKey(s.keys, s.result).key
                       ELSE f.secret
         IN IF s.result = NoKey
            THEN [keys |-> s.keys, last_reset_date |-> s.last_reset_date,
                  fwd |-> [f EXCEPT !.pc = "done", !.attempt = attempt,
                                    !.selects = calls,
                                    !.log = asked,
                                    !.response = Unavailable("pool")]]
            ELSE [keys |-> s.keys, last_reset_date |-> s.last_reset_date,
                  fwd |-> [f EXCEPT !.pc = IF f.stream THEN "stream_connect" ELSE "http",
                                    !.attempt = attempt,
                                    !.selects = calls,
                                    !.selected = s.result,
                                    !.secret = secret,
                                    !.response = IF f.stream THEN Streaming ELSE @,
                                    !.log = Append(asked, EvRequest(s.result)),
                                    !.sent = Append(@, Outbound(f.request, s.result,
                                                                secret, now))]]

Continue(t, r) ==
    /\ keys' = r.keys
    /\ last_reset_date' = r.last_reset_date
    /\ fwd' = [fwd EXCEPT ![t] = r.fwd]
    /\ UNCHANGED <<clockVars, callVars, lockVars>>

Logged(f, events) == [f EXCEPT !.log = @ \o events]

\* a request arrives
FwdStart(t, request) ==
    /\ fwd[t].pc = "idle"
    /\ Continue(t, Iterate(keys, last_reset_date,
                           [fwd[t] EXCEPT !.request = request,
                                          !.stream = is_streaming(request)],
                           0, NoKey))

\* http_client.request returns a response
FwdResponse(t, status, body) ==
    /\ fwd[t].pc = "http"
    /\ LET id == fwd[t].selected
           charged == record_request(keys, id, now)
           got == <<EvResponse(id, status, body), EvCharge(id)>>
       IN IF IsRateLimited(status)
          THEN LET is_rpd == IsRpdLimit(body)
                   failed == record_error(charged, id, is_rpd)
                   f == Logged(fwd[t], got \o <<EvError(id, is_rpd)>>)
               IN IF is_rpd
                  THEN Continue(t, Iterate(failed, last_reset_date, f,
                                           fwd[t].attempt + 1, NoKey))
                  ELSE Continue(t, [keys |-> failed, last_reset_date |-> last_reset_date,
                                    fwd |-> [Logged(f, <<EvSleep(id)>>)
                                                EXCEPT !.pc = "sleep"]])
          ELSE Continue(t, [keys |-> charged, last_reset_date |-> last_reset_date,
                            fwd |-> [Logged(fwd[t], got)
                                        EXCEPT !.pc = "done",
                                               !.response = Upstream(status, body)]])

\* asyncio.sleep(config.retry_delay_seconds) returns
FwdWake(t) ==
    /\ fwd[t].pc = "sleep"
    /\ Continue(t, Iterate(keys, last_reset_date, fwd[t],
                           fwd[t].attempt + 1, fwd[t].selected))

\* http_client.request raises httpx.TimeoutException or httpx.RequestError
FwdTransportError(t) ==
    /\ fwd[t].pc = "http"
    /\ LET id == fwd[t].selected
       IN Continue(t, Iterate(record_error(keys, id, FALSE), last_reset_date,
                              Logged(fwd[t], <<EvRaise(id), EvError(id, FALSE)>>),
                              fwd[t].attempt + 1, NoKey))

\* streaming_client.stream is entered: the upstream has answered with a status
StreamOpen(t, status) ==
    /\ fwd[t].pc = "stream_connect"
    /\ LET id == fwd[t].selected
       IN Continue(t, [keys |-> record_request(keys, id, now),
                       last_reset_date |-> last_reset_date,
                       fwd |-> [Logged(fwd[t], <<EvResponse(id, status, NoBody),
                                                 EvCharge(id)>>)
                                   EXCEPT !.pc = IF status = 200 THEN "relay" ELSE "done"]])

\* mutant: a failure to connect is recorded as in the loop of proxy_request
StreamConnectError_Recorded(t) ==
    /\ fwd[t].pc = "stream_connect"
    /\ Continue(t, [keys |-> record_error(keys, fwd[t].selected, FALSE),
                    last_reset_date |-> last_reset_date,
                    fwd |-> [Logged(fwd[t], <<EvRaise(fwd[t].selected),
                                              EvError(fwd[t].selected, FALSE)>>)
                                EXCEPT !.pc = "done"]])

\* streaming_client.stream raises before the upstream answers
StreamConnectError(t) ==
    /\ fwd[t].pc = "stream_connect"
    /\ Continue(t, [keys |-> keys, last_reset_date |-> last_reset_date,
                    fwd |-> [Logged(fwd[t], <<EvRaise(fwd[t].selected)>>)
                                EXCEPT !.pc = "done"]])

\* response.aiter_bytes yields a chunk
StreamChunk(t) ==
    /\ fwd[t].pc = "relay"
    /\ fwd[t].chunks < MaxChunks
    /\ Continue(t, [keys |-> keys, last_reset_date |-> last_reset_date,
                    fwd |-> [fwd[t] EXCEPT !.chunks = @ + 1]])

\* the upstream stream ends, or breaks
StreamEnd(t) ==
    /\ fwd[t].pc = "relay"
    /\ Continue(t, [keys |-> keys, last_reset_date |-> last_reset_date,
                    fwd |-> [fwd[t] EXCEPT !.pc = "done"]])

Statuses == {200, 429, 503}

\* the bodies a response of another status may carry
Contents == {NoBody, [json |-> TRUE, dict |-> TRUE, message |-> <<"Daily", "limit", "reached">>]}

Answer(status, body) == [status |-> status, body |-> body]

\* the responses of the upstream: a 429 carries one of Bodies
Answers ==
    {Answer(status, body) : status \in Statuses \ {429}, body \in Contents}
        \cup {Answer(429, body) : body \in Bodies}

\* what the upstream may do to a call that is not streaming
FwdUpstream(t, answers) ==
    \/ \E a \in answers : FwdResponse(t, a.status, a.body)
    \/ FwdWake(t)
    \/ FwdTransportError(t)

FwdStep(t) ==
    \/ FwdUpstream(t, Answers)
    \/ \E status \in Statuses : StreamOpen(t, status)
    \/ StreamConnectError(t)
    \/ StreamChunk(t)
    \/ StreamEnd(t)

NextFwd ==
    \/ \E t \in FTasks, request \in {PlainRequest, StreamRequest} : FwdStart(t, request)
    \/ \E t \in FTasks : FwdStep(t)
    \/ Elapse
    \/ Midnight

SpecFwd == Init /\ [][NextFwd]_vars

\* one proxy_request call on its own
NextOne ==
    \/ \E request \in {PlainRequest, StreamRequest} : FwdStart(1, request)
    \/ FwdStep(1)
    \/ Elapse
    \/ Midnight

SpecOne == Init /\ [][NextOne]_vars

\* every upstream call returns or raises (the client has connect, read and write
\* timeouts), and every sleep ends
SpecOneFair == SpecOne /\ WF_vars(FwdStep(1))

\* one proxy_request call for each of the requests, the clock standing still
NextReq ==
    \/ \E request \in Requests : FwdStart(1, request)
    \/ FwdStep(1)

SpecReq == Init /\ [][NextReq]_vars

\* proxy_request calls side by side, none of them streaming, against an upstream
\* that answers 200 or a daily-limit 429, or fails
FewAnswers ==
    {Answer(200, NoBody),
     Answer(429, [json |-> TRUE, dict |-> TRUE, message |-> <<"Quota", "exceeded", "per", "day">>])}

NextPar ==
    \/ \E t \in FTasks : FwdStart(t, PlainRequest)
    \/ \E t \in FTasks, a \in FewAnswers : FwdResponse(t, a.status, a.body)
    \/ \E t \in FTasks : FwdTransportError(t)
    \/ Elapse
    \/ Midnight

SpecPar == Init /\ [][NextPar]_vars

(***************************************************************************)
(* admin.py: the handlers of /admin/status and /admin/reset, and one       *)
(* proxy_request call in flight while keys are added and removed.          *)
(***************************************************************************)
\* get_all_status: `return await key_manager.get_status()`
GetAllStatus ==
    /\ op' = Call("get_all_status", NoKey, AwaitRaises("get_status"))
    /\ ret' = IF AwaitRaises("get_status") THEN NoKey
              ELSE get_status(keys, last_reset_date, now)
    /\ UNCHANGED <<poolVars, clockVars, lockVars, fwdVars>>

\* reset_counters: `await key_manager.force_reset()`, a method KeyManager does
\* not have, so that nothing of the pool is run
ResetCounters ==
    /\ AwaitRaises("force_reset")
    /\ op' = Call("reset_counters", NoKey, TRUE)
    /\ ret' = NoKey
    /\ UNCHANGED <<poolVars, clockVars, lockVars, fwdVars>>

NextAdmin ==
    \/ \E request \in {PlainRequest, StreamRequest} : FwdStart(1, request)
    \/ \E a \in FewAnswers : FwdResponse(1, a.status, a.body)
    \/ FwdTransportError(1)
    \/ \E status \in Statuses : StreamOpen(1, status)
    \/ StreamEnd(1)
    \/ \E api_key \in Secrets, rl \in Limits, ml \in Limits : AddKey(api_key, rl, ml)
    \/ \E key_id \in KeyIds : RemoveKey(key_id)
    \/ GetAllStatus
    \/ ResetCounters

SpecAdmin == Init /\ [][NextAdmin]_vars

(***************************************************************************)
(* proxy.py: the loop of proxy_request with the KeyManager coroutines it   *)
(* awaits run one statement a step.  fwd[t].pc is the await that call t    *)
(* stands at: that of a coroutine of the key manager ("select_key",        *)
(* "record_request", "record_error"), which crit[t] runs, or one that      *)
(* suspends the task ("http", "sleep").  fwd[t].response holds the local   *)
(* `response` until the call returns.  The call's log is not kept here.    *)
(***************************************************************************)
Await(name, key_id, is_rpd_limit) == Begin(Invocation(name, key_id, is_rpd_limit, 0, 0, 0))

\* the loop from its head at `attempt`: a select_key call, or the 503 after the
\* last attempt
ProxyLoop(t, f, attempt) ==
    IF AttemptsLeft(attempt)
    THEN /\ fwd' = [fwd EXCEPT ![t] = [f EXCEPT !.pc = "select_key", !.attempt = attempt]]
         /\ crit' = [crit EXCEPT ![t] = Await("select_key", NoKey, FALSE)]
    ELSE /\ fwd' = [fwd EXCEPT ![t] = [f EXCEPT !.pc = "done", !.attempt = attempt,
                                                !.response = Unavailable("attempts")]]
         /\ crit' = [crit EXCEPT ![t] = Resting]

ProxyStart(t) ==
    /\ fwd[t].pc = "idle"
    /\ crit[t].pc = "idle"
    /\ ProxyLoop(t, [fwd[t] EXCEPT !.request = PlainRequest], 0)
    /\ UNCHANGED <<poolVars, clockVars, callVars, lock, lpc, lkey, lused>>

\* select_key has returned
ProxySelected(t) ==
    /\ fwd[t].pc = "select_key"
    /\ crit[t].pc = "done"
    /\ LET selected_key == crit[t].result
       IN fwd' = [fwd EXCEPT ![t] =
                    IF selected_key = NoKey
                    THEN [@ EXCEPT !.pc = "done", !.response = Unavailable("pool")]
                    ELSE [@ EXCEPT !.pc = "http", !.selected = selected_key,
                                   !.secret = IF HasKey(keys, selected_key)
                                              THEN GetKey(keys, selected_key).key
                                              ELSE @]]
    /\ crit' = [crit EXCEPT ![t] = Resting]
    /\ UNCHANGED <<poolVars, clockVars, callVars, lock, lpc, lkey, lused>>

\* http_client.request returns a response: record_request is awaited
ProxyResponse(t, status, body) ==
    /\ fwd[t].pc = "http"
    /\ fwd' = [fwd EXCEPT ![t].pc = "record_request",
                          ![t].response = Upstream(status, body)]
    /\ crit' = [crit EXCEPT ![t] = Await("record_request", fwd[t].selected, FALSE)]
    /\ UNCHANGED <<poolVars, clockVars, callVars, lock, lpc, lkey, lused>>

\* record_request has returned: a 429 goes on to record_error, any other status is
\* returned
ProxyCharged(t) ==
    /\ fwd[t].pc = "record_request"
    /\ crit[t].pc = "done"
    /\ IF IsRateLimited(fwd[t].response.status)
       THEN /\ fwd' = [fwd EXCEPT ![t].pc = "record_error"]
            /\ crit' = [crit EXCEPT ![t] = Await("record_error", fwd[t].selected,
                                                 IsRpdLimit(fwd[t].response.body))]
       ELSE /\ fwd' = [fwd EXCEPT ![t].pc = "done"]
            /\ crit' = [crit EXCEPT ![t] = Resting]
    /\ UNCHANGED <<poolVars, clockVars, callVars, lock, lpc, lkey, lused>>

\* http_client.request raises: record_error is awaited
ProxyTransportError(t) ==
    /\ fwd[t].pc = "http"
    /\ fwd' = [fwd EXCEPT ![t].pc = "record_error", ![t].response = NoResponse]
    /\ crit' = [crit EXCEPT ![t] = Await("record_error", fwd[t].selected, FALSE)]
    /\ UNCHANGED <<poolVars, clockVars, callVars, lock, lpc, lkey, lused>>

\* record_error has returned: after a 429 that is not a daily one the call sleeps,
\* otherwise it goes to the head of the loop
ProxyFailed(t) ==
    /\ fwd[t].pc = "record_error"
    /\ crit[t].pc = "done"
    /\ IF IsRateLimited(fwd[t].response.status) /\ ~crit[t].call.flag
       THEN /\ fwd' = [fwd EXCEPT ![t].pc = "sleep"]
            /\ crit' = [crit EXCEPT ![t] = Resting]
       ELSE ProxyLoop(t, fwd[t], fwd[t].attempt + 1)
    /\ UNCHANGED <<poolVars, clockVars, callVars, lock, lpc, lkey, lused>>

\* asyncio.sleep returns: the next iteration reuses the key
ProxyWake(t) ==
    /\ fwd[t].pc = "sleep"
    /\ fwd' = [fwd EXCEPT ![t] =
                 IF AttemptsLeft(fwd[t].attempt + 1)
                 THEN [@ EXCEPT !.pc = "http", !.attempt = @ + 1]
                 ELSE [@ EXCEPT !.pc = "done", !.attempt = @ + 1,
                                !.response = Unavailable("attempts")]]
    /\ UNCHANGED <<poolVars, clockVars, callVars, lockVars>>

\* the upstream answers 200, a daily-limit 429 or a per-minute 429
SomeAnswers ==
    FewAnswers \cup
        {Answer(429, [json |-> TRUE, dict |-> TRUE, message |-> <<"Per", "minute", "limit">>])}

\* one proxy_request call and one caller of a KeyManager coroutine
NextHold ==
    \/ ProxyStart(1)
    \/ ProxySelected(1)
    \/ \E a \in SomeAnswers : ProxyResponse(1, a.status, a.body)
    \/ ProxyCharged(1)
    \/ ProxyTransportError(1)
    \/ ProxyFailed(1)
    \/ ProxyWake(1)
    \/ \E inv \in Invocations : CritCall(2, inv)
    \/ \E t \in Callers : CritStep(t)

SpecHold == Init /\ [][NextHold]_vars

(***************************************************************************)
(* Properties of the pool's operations, checked under Spec.                *)
(***************************************************************************)
InPool(key_id) == \E i \in 1..Len(keys) : keys[i].id = key_id

WindowCount(k) ==
    Cardinality({i \in 1..Len(k.rpm_timestamps) : k.rpm_timestamps[i] > now - Window})

Eligible(k) ==
    /\ k.status = "active"
    /\ k.rpd_used < k.rpd_limit
    /\ WindowCount(k) < k.rpm_limit

Returned(name) == op.name = name

\* C1: select_key never returns a key that, as it returns, is exhausted, has
\* rpd_used >= rpd_limit, or has rpm_limit or more timestamps in the last 60 seconds.
C1_SelectReturnsOnlyEligible ==
    (Returned("select_key") /\ ret # NoKey) =>
        \E i \in 1..Len(keys) :
            /\ keys[i].id = ret
            /\ keys[i].status # "exhausted"
            /\ keys[i].rpd_used < keys[i].rpd_limit
            /\ WindowCount(keys[i]) < keys[i].rpm_limit

\* select_key returned a key while another key of the pool had its minute window full
C1_Witness ==
    /\ Returned("select_key") /\ ret # NoKey
    /\ \E i \in 1..Len(keys) :
          /\ keys[i].id # ret
          /\ keys[i].status = "active" /\ keys[i].rpd_used < keys[i].rpd_limit
          /\ WindowCount(keys[i]) >= keys[i].rpm_limit

\* C2: when some key is eligible, select_key returns an eligible key whose remaining
\* daily quota is the largest among the eligible keys, and among those of equal
\* remaining quota the first in insertion order.
C2_SelectReturnsFirstLargest ==
    (Returned("select_key") /\ \E i \in 1..Len(keys) : Eligible(keys[i])) =>
        \E r \in 1..Len(keys) :
            /\ keys[r].id = ret
            /\ Eligible(keys[r])
            /\ \A j \in 1..Len(keys) : Eligible(keys[j]) =>
                  /\ keys[r].rpd_limit - keys[r].rpd_used >= keys[j].rpd_limit - keys[j].rpd_used
                  /\ (keys[r].rpd_limit - keys[r].rpd_used = keys[j].rpd_limit - keys[j].rpd_used
                         => r <= j)

\* select_key chose between two eligible keys of equal remaining quota
C2_Witness ==
    /\ Returned("select_key") /\ Len(keys) = 2
    /\ Eligible(keys[1]) /\ Eligible(keys[2])
    /\ keys[1].rpd_used > 0
    /\ keys[1].rpd_limit - keys[1].rpd_used = keys[2].rpd_limit - keys[2].rpd_used
    /\ ret = keys[1].id

\* C3: select_key returns None exactly when, after its reset check and pruning, no
\* key of the pool is active with rpd_used < rpd_limit and a window count < rpm_limit.
C3_SelectNoneIffNoneEligible ==
    Returned("select_key") =>
        (ret = NoKey <=> ~ \E i \in 1..Len(keys) : Eligible(keys[i]))

\* select_key returned None on a pool whose keys are all active but blocked
C3_Witness ==
    /\ Returned("select_key") /\ ret = NoKey /\ Len(keys) = 2
    /\ keys[1].status = "active" /\ keys[1].rpd_used < keys[1].rpd_limit
    /\ keys[2].status = "exhausted"

\* the key with id key_id before and after the step
Before(key_id) == keys[CHOOSE i \in 1..Len(keys) : keys[i].id = key_id]
After(key_id) == keys'[CHOOSE i \in 1..Len(keys') : keys'[i].id = key_id]
StillInPool(key_id) == \E i \in 1..Len(keys') : keys'[i].id = key_id

RecordRequestOf(key_id) ==
    /\ op' = [name |-> "record_request", id |-> key_id, flag |-> FALSE]
    /\ InPool(key_id)

\* C4 as claimed: record_request on a key of the pool adds 1 to rpd_used and one
\* timestamp, and afterwards the key is exhausted if and only if rpd_used >= rpd_limit.
C4_Original ==
    [][\A key_id \in KeyIds : RecordRequestOf(key_id) =>
          /\ StillInPool(key_id)
          /\ After(key_id).rpd_used = Before(key_id).rpd_used + 1
          /\ Len(After(key_id).rpm_timestamps) = Len(Before(key_id).rpm_timestamps) + 1
          /\ (After(key_id).status = "exhausted"
                 <=> After(key_id).rpd_used >= After(key_id).rpd_limit)]_vars

\* C4 amended: record_request on a key of the pool adds 1 to rpd_used and one
\* timestamp (the current time, at the end); afterwards the key is exhausted if
\* rpd_used >= rpd_limit, and otherwise keeps the status it had.
C4_RecordRequestCharges ==
    [][\A key_id \in KeyIds : RecordRequestOf(key_id) =>
          /\ StillInPool(key_id)
          /\ After(key_id).rpd_used = Before(key_id).rpd_used + 1
          /\ After(key_id).rpm_timestamps = Append(Before(key_id).rpm_timestamps, now)
          /\ (After(key_id).rpd_used >= After(key_id).rpd_limit
                 => After(key_id).status = "exhausted")
          /\ (After(key_id).rpd_used < After(key_id).rpd_limit
                 => After(key_id).status = Before(key_id).status)]_vars

\* record_request has just charged a key that a daily-limit error had exhausted
\* before its counter reached the limit
C4_Witness ==
    /\ Returned("record_request") /\ InPool(op.id)
    /\ \E i \in 1..Len(keys) :
          /\ keys[i].id = op.id
          /\ keys[i].status = "exhausted"
          /\ keys[i].rpd_used > 0 /\ keys[i].rpd_used < keys[i].rpd_limit

\* C5: record_error(id, TRUE) on a key of the pool leaves it exhausted whatever its
\* rpd_used and status were, and leaves rpd_used unchanged; record_error(id, FALSE)
\* leaves status and rpd_used unchanged.
C5_RecordErrorStatus ==
    [][\A key_id \in KeyIds, is_rpd_limit \in BOOLEAN :
          (/\ op' = [name |-> "record_error", id |-> key_id, flag |-> is_rpd_limit]
           /\ InPool(key_id)) =>
              /\ StillInPool(key_id)
              /\ After(key_id).rpd_used = Before(key_id).rpd_used
              /\ (is_rpd_limit => After(key_id).status = "exhausted")
              /\ (~is_rpd_limit => After(key_id).status = Before(key_id).status)]_vars

\* record_error(id, TRUE) has just exhausted a key whose counter is below its limit
C5_Witness ==
    /\ Returned("record_error") /\ op.flag
    /\ \E i \in 1..Len(keys) :
          /\ keys[i].id = op.id
          /\ keys[i].status = "exhausted"
          /\ keys[i].rpd_used < keys[i].rpd_limit

\* C6: in every reachable state of a pool with positive limits, a key with
\* rpd_used >= rpd_limit is exhausted.
C6_SpentIsExhausted ==
    \A i \in 1..Len(keys) :
        (keys[i].rpd_limit > 0 /\ keys[i].rpd_used >= keys[i].rpd_limit)
            => keys[i].status = "exhausted"

\* a key has been charged past its limit, on a day after a reset
C6_Witness ==
    /\ last_reset_date > 0
    /\ \E i \in 1..Len(keys) : keys[i].rpd_used > keys[i].rpd_limit

\* C7: check_and_reset_daily called when today is not after last_reset_date changes
\* no key and not last_reset_date.
C7_ResetSameDayNoop ==
    [][(op'.name = "check_and_reset_daily" /\ ~(today > last_reset_date))
          => (keys' = keys /\ last_reset_date' = last_reset_date)]_vars

\* check_and_reset_daily has returned on the day of the last reset, on a pool with
\* an exhausted key, a counter and a failure count to lose
C7_Witness ==
    /\ Returned("check_and_reset_daily")
    /\ last_reset_date = today /\ today > 0
    /\ \E i \in 1..Len(keys) :
          /\ keys[i].status = "exhausted"
          /\ keys[i].rpd_used > 0
          /\ keys[i].consecutive_failures > 0

\* C8: check_and_reset_daily called when today is after last_reset_date sets, in one
\* step, rpd_used = 0 and consecutive_failures = 0 for every key, makes every
\* exhausted key active, and sets last_reset_date to today.
C8_ResetNewDay ==
    [][(op'.name = "check_and_reset_daily" /\ today > last_reset_date) =>
          /\ last_reset_date' = today
          /\ Len(keys') = Len(keys)
          /\ \A i \in 1..Len(keys) :
                /\ keys'[i].id = keys[i].id
                /\ keys'[i].rpd_used = 0
                /\ keys'[i].consecutive_failures = 0
                /\ keys'[i].status = "active"]_vars

\* check_and_reset_daily has just reset a key that had been used and had failed
C8_Witness ==
    /\ Returned("check_and_reset_daily")
    /\ last_reset_date = today /\ today > 0
    /\ \E i \in 1..Len(keys) :
          /\ keys[i].rpm_timestamps # <<>>
          /\ keys[i].rpd_used = 0 /\ keys[i].status = "active"
          /\ keys[i].rpd_limit = 1

(***************************************************************************)
(* Properties of concurrent record_request calls, checked under SpecLock.  *)
(***************************************************************************)
\* the coroutines whose call on key_id has gone past the given statements
CallsPast(key_id, pcs) == Cardinality({t \in Tasks : lkey[t] = key_id /\ lpc[t] \in pcs})

\* C9: N concurrent record_request calls on one key, however interleaved, leave
\* its rpd_used larger by N and N more entries in rpm_timestamps: at every moment
\* the counter and the list count exactly the calls that have written them.
C9_NoLostUpdate ==
    \A i \in 1..Len(keys) :
        /\ keys[i].rpd_used = CallsPast(keys[i].id, {"stamp", "release", "done"})
        /\ Len(keys[i].rpm_timestamps) = CallsPast(keys[i].id, {"release", "done"})

\* every coroutine has returned, all of them having charged the same key, while
\* the clock moved between two of the calls
C9_Witness ==
    /\ \A t \in Tasks : lpc[t] = "done"
    /\ \E i \in 1..Len(keys) :
          /\ keys[i].rpd_used = NumTasks
          /\ Len(keys[i].rpm_timestamps) = NumTasks
          /\ keys[i].rpm_timestamps[1] # keys[i].rpm_timestamps[NumTasks]

(***************************************************************************)
(* Properties of one proxy_request call, checked under SpecOneFair.        *)
(***************************************************************************)
\* C10: a non-streaming proxy_request call makes at most max_retries upstream
\* calls and at most max_retries select_key calls, and once it waits on the
\* upstream or sleeps it goes on to return a response, whatever the upstream
\* answers.
C10_ForwardTerminates ==
    /\ [](\A t \in FTasks : ~fwd[t].stream =>
              /\ Len(fwd[t].sent) <= max_retries
              /\ fwd[t].selects <= max_retries)
    /\ \A t \in FTasks :
          (fwd[t].pc \in {"http", "sleep"})
              ~> (fwd[t].pc = "done" /\ fwd[t].response.kind # "none")

\* a non-streaming call has returned the 503 of the exhausted attempts after
\* max_retries upstream calls, the last of them a retry after a sleep
C10_Witness ==
    \E t \in FTasks :
        /\ fwd[t].pc = "done" /\ ~fwd[t].stream
        /\ fwd[t].response = Unavailable("attempts")
        /\ Len(fwd[t].sent) = max_retries
        /\ fwd[t].selects < max_retries

(***************************************************************************)
(* Properties of proxy_request calls read off their logs.                  *)
(***************************************************************************)
\* the positions of the log of call t holding an event of one of the kinds evs
Positions(t, evs) == {i \in 1..Len(fwd[t].log) : fwd[t].log[i].ev \in evs}

NoneSelected(e) == e.ev = "select_key" /\ e.id = NoKey

\* a key as select_key sees it: after the daily reset if the date has moved on
AtSelection(k) == IF today > last_reset_date THEN ResetKey(k) ELSE k

NoneEligible == \A i \in 1..Len(keys) : ~Eligible(AtSelection(keys[i]))

\* C11: when select_key returns None the call returns at once a 503 with
\* Retry-After: 60, and makes no further upstream request and no further select_key
\* call, even with attempts left; a call that starts when no key is eligible
\* makes no upstream request at all.
C11_NoneSelectedEndsCall ==
    /\ [](\A t \in FTasks :
            /\ fwd[t].selects = Cardinality(Positions(t, {"select_key"}))
            /\ Len(fwd[t].sent) = Cardinality(Positions(t, {"request"}))
            /\ \A i \in Positions(t, {"select_key"}) :
                  NoneSelected(fwd[t].log[i]) =>
                      /\ i = Len(fwd[t].log)
                      /\ fwd[t].pc = "done"
                      /\ fwd[t].response.status = 503
                      /\ fwd[t].response.retry_after = 60)
    /\ [][\A t \in FTasks :
            (fwd[t].pc = "idle" /\ fwd'[t].pc # "idle" /\ NoneEligible) =>
                /\ fwd'[t].pc = "done"
                /\ fwd'[t].sent = <<>>
                /\ fwd'[t].response.status = 503
                /\ fwd'[t].response.retry_after = 60]_vars

\* a call found the pool exhausted on its first attempt and has returned the 503
\* without an upstream request
C11_Witness ==
    \E t \in FTasks :
        /\ fwd[t].pc = "done" /\ fwd[t].attempt = 0 /\ AttemptsLeft(fwd[t].attempt + 1)
        /\ fwd[t].log = <<EvSelect(NoKey, FALSE)>>
        /\ fwd[t].sent = <<>>
        /\ fwd[t].response.status = 503

\* how the upstream requests of call t ended, as positions of its log
Outcomes(t) == Positions(t, {"response", "raise"})

FailedOutcome(e) == e.ev = "raise" \/ (e.ev = "response" /\ e.status = 429)

LastOf(positions) == CHOOSE i \in positions : \A j \in positions : j <= i

\* the call's last select_key returned None
Starved(t) ==
    /\ Positions(t, {"select_key"}) # {}
    /\ NoneSelected(fwd[t].log[LastOf(Positions(t, {"select_key"}))])

\* all max_retries attempts ended in a 429 or a transport failure
Spent(t) ==
    /\ Cardinality(Outcomes(t)) = max_retries
    /\ \A i \in Outcomes(t) : FailedOutcome(fwd[t].log[i])

\* C12: a non-streaming call returns the synthetic 503 (Retry-After: 60) exactly
\* when select_key returned None or all max_retries attempts ended in a 429 or a
\* transport failure; otherwise it returns the upstream's last response, whose
\* status is not 429.
C12_SyntheticOnlyWhenStarved ==
    \A t \in FTasks :
        (fwd[t].pc = "done" /\ ~fwd[t].stream) =>
            IF Starved(t) \/ Spent(t)
            THEN /\ fwd[t].response.status = 503
                 /\ fwd[t].response.retry_after = 60
                 /\ fwd[t].response.kind \in {"pool", "attempts"}
            ELSE /\ Outcomes(t) # {}
                 /\ LET last == fwd[t].log[LastOf(Outcomes(t))]
                    IN /\ last.ev = "response"
                       /\ fwd[t].response = Upstream(last.status, last.body)
                       /\ fwd[t].response.status # 429

\* a call whose first attempt was answered 429 has returned the upstream's own 503
\* of the second attempt
C12_Witness ==
    \E t \in FTasks :
        /\ fwd[t].pc = "done" /\ ~fwd[t].stream
        /\ Len(fwd[t].sent) = 2
        /\ fwd[t].response.status = 503
        /\ fwd[t].response.retry_after = 0
        /\ \E i \in Outcomes(t) : fwd[t].log[i].status = 429

\* the body of a 429 that _is_rpd_limit takes for a daily-limit error: a JSON
\* object whose error is an object with a message that has "per day" or "daily"
\* in it, in any case
DailyMessages ==
    {<<"Quota", "exceeded", "per", "day">>, <<"Daily", "limit", "reached">>}

ClassifiedDaily(body) == body.json /\ body.dict /\ body.message \in DailyMessages

\* the 429 responses of call t with a body of the given classification
RateLimited(t, daily) ==
    {i \in Positions(t, {"response"}) :
        /\ fwd[t].log[i].status = 429
        /\ ClassifiedDaily(fwd[t].log[i].body) = daily}

\* the log of call t goes on after position i with these events
Follows(t, i, events) ==
    /\ Len(fwd[t].log) >= i + Len(events)
    /\ SubSeq(fwd[t].log, i + 1, i + Len(events)) = events

\* the log of call t ends at position i, the call having returned the 503 of the
\* exhausted attempts
EndsSpent(t, i) ==
    /\ Len(fwd[t].log) = i
    /\ fwd[t].pc = "done"
    /\ fwd[t].response = Unavailable("attempts")

\* after position i the call selected a key anew and either got None or sent the
\* next request with the key selected, which satisfies `other`
SelectsAnew(t, i, other(_, _)) ==
    /\ Len(fwd[t].log) > i
    /\ LET e == fwd[t].log[i + 1]
       IN /\ e.ev = "select_key"
          /\ \/ e.id = NoKey
             \/ /\ Len(fwd[t].log) > i + 1
                /\ fwd[t].log[i + 2] = EvRequest(e.id)
                /\ other(e.id, e.flag)

\* what follows a daily-limit 429 at position i of the log of a non-streaming call
\* made with key c
AfterDaily(t, i, other(_, _)) ==
    LET c == fwd[t].log[i].id
    IN /\ fwd[t].log[i - 1] = EvRequest(c)
       /\ Follows(t, i, <<EvCharge(c), EvError(c, TRUE)>>)
       /\ \/ EndsSpent(t, i + 2)
          \/ SelectsAnew(t, i + 2, other)

\* C13 as stated: after a 429 classified as daily on an attempt made with key c,
\* the call calls record_error(c, True), takes the next attempt's key from a new
\* select_key call, and sends the next attempt, if any, with a key other than c.
C13_Original ==
    \A t \in FTasks : \A i \in RateLimited(t, TRUE) :
        ~fwd[t].stream =>
            AfterDaily(t, i, LAMBDA id, reset : id # fwd[t].log[i].id)

\* C13: the same, except that the new select_key call may return c again when
\* it ran the daily reset, which makes c active again.
C13_DailyLimitSwitchesKey ==
    \A t \in FTasks : \A i \in RateLimited(t, TRUE) :
        ~fwd[t].stream =>
            AfterDaily(t, i, LAMBDA id, reset : id # fwd[t].log[i].id \/ reset)

\* a call has sent its second attempt with another key after a daily-limit 429
C13_Witness ==
    \E t \in FTasks :
        /\ ~fwd[t].stream
        /\ RateLimited(t, TRUE) # {}
        /\ Len(fwd[t].sent) = 2
        /\ fwd[t].sent[1].id # fwd[t].sent[2].id

\* C14: after a 429 that is not classified as daily on an attempt made with key c,
\* the call calls record_error(c, False) and sleeps, and then sends the next
\* attempt, if any, with c again without a select_key call in between.
C14_MinuteLimitRetriesSameKey ==
    \A t \in FTasks : \A i \in RateLimited(t, FALSE) :
        ~fwd[t].stream =>
            LET c == fwd[t].log[i].id
            IN /\ fwd[t].log[i - 1] = EvRequest(c)
               /\ Follows(t, i, <<EvCharge(c), EvError(c, FALSE), EvSleep(c)>>)
               /\ \/ Len(fwd[t].log) = i + 3 /\ fwd[t].pc = "sleep"
                  \/ EndsSpent(t, i + 3)
                  \/ Follows(t, i + 3, <<EvRequest(c)>>)

\* a call has slept after a 429 whose body is not JSON and has sent its second
\* attempt with the same key, having called select_key once
C14_Witness ==
    \E t \in FTasks : \E i \in RateLimited(t, FALSE) :
        /\ ~fwd[t].stream
        /\ ~fwd[t].log[i].body.json
        /\ Follows(t, i + 3, <<EvRequest(fwd[t].log[i].id)>>)
        /\ fwd[t].selects = 1
        /\ Len(fwd[t].sent) = 2

Raised(log) == {i \in 1..Len(log) : log[i].ev = "raise"}

\* C15: when an attempt made with key c fails in transport, the call calls
\* record_error(c, False) once and does not call record_request (rpd_used and
\* status of c stay as they were, unless the select_key call that follows runs
\* the daily reset), the attempt is used up, and the next attempt's key comes
\* from a new select_key call.
C15_TransportFailure ==
    /\ [](\A t \in FTasks : ~fwd[t].stream =>
            /\ fwd[t].pc = "http" => fwd[t].attempt = Cardinality(Outcomes(t))
            /\ \A i \in Raised(fwd[t].log) :
                  LET c == fwd[t].log[i].id
                  IN /\ fwd[t].log[i - 1] = EvRequest(c)
                     /\ Follows(t, i, <<EvError(c, FALSE)>>)
                     /\ \/ EndsSpent(t, i + 1)
                        \/ /\ Len(fwd[t].log) > i + 1
                           /\ fwd[t].log[i + 2].ev = "select_key")
    /\ [][\A t \in FTasks :
            (~fwd[t].stream /\ Raised(fwd'[t].log) # Raised(fwd[t].log)
                /\ last_reset_date' = last_reset_date) =>
                \A i \in 1..Len(keys) :
                    keys[i].id = fwd[t].selected =>
                        /\ keys'[i].rpd_used = keys[i].rpd_used
                        /\ keys'[i].status = keys[i].status
                        /\ keys'[i].consecutive_failures =
                               keys[i].consecutive_failures + 1]_vars

\* a call whose first attempt failed in transport has selected a key again and
\* sent its second attempt, the key's counter still at 0
C15_Witness ==
    \E t \in FTasks :
        /\ ~fwd[t].stream /\ fwd[t].pc = "http" /\ fwd[t].attempt = 1
        /\ Raised(fwd[t].log) = {3}
        /\ fwd[t].selects = 2
        /\ \E i \in 1..Len(keys) :
              /\ keys[i].id = fwd[t].log[3].id
              /\ keys[i].rpd_used = 0
              /\ keys[i].consecutive_failures = 1

\* C16 as stated: after a transport failure on an attempt made with key c, the
\* next attempt of the call is sent with a key other than c.
C16_Original ==
    \A t \in FTasks : \A i \in Raised(fwd[t].log) :
        (~fwd[t].stream /\ Len(fwd[t].log) >= i + 3
            /\ fwd[t].log[i + 3].ev = "request") =>
                fwd[t].log[i + 3].id # fwd[t].log[i].id

(***************************************************************************)
(* Properties of proxy_request calls running side by side, checked under   *)
(* SpecPar.                                                                *)
(***************************************************************************)
RECURSIVE SumUsed(_)
SumUsed(ks) == IF ks = <<>> THEN 0 ELSE Head(ks).rpd_used + SumUsed(Tail(ks))

\* call t has returned the upstream's answer to its first attempt
FirstTimeLucky(t) ==
    /\ fwd[t].pc = "done"
    /\ Len(fwd[t].sent) = 1
    /\ Outcomes(t) # {}
    /\ \A i \in Outcomes(t) :
          fwd[t].log[i].ev = "response" /\ fwd[t].log[i].status # 429

\* call t has not begun, or waits for the answer to its first attempt
NotYetAnswered(t) ==
    \/ fwd[t].pc = "idle"
    \/ fwd[t].pc = "http" /\ fwd[t].attempt = 0

OnlyLuckyCalls == \A t \in FTasks : FirstTimeLucky(t) \/ NotYetAnswered(t)

\* C17 as stated: calls that each get a response other than 429 on their first
\* attempt, however interleaved, raise the sum of rpd_used over the pool by their
\* number.
C17_Original ==
    OnlyLuckyCalls => SumUsed(keys) = Cardinality({t \in FTasks : FirstTimeLucky(t)})

\* C17: the same, as long as no daily reset has run since the calls began.
C17_EachCallChargedOnce ==
    (OnlyLuckyCalls /\ last_reset_date = 0) =>
        SumUsed(keys) = Cardinality({t \in FTasks : FirstTimeLucky(t)})

\* all calls have returned their first answer, having overlapped: they were sent
\* with the same key although its rpm_limit stood at 1
C17_Witness ==
    /\ \A t \in FTasks : FirstTimeLucky(t)
    /\ last_reset_date = 0
    /\ SumUsed(keys) = NumForwards
    /\ \E i \in 1..Len(keys) :
          keys[i].rpm_limit = 1 /\ keys[i].rpd_used = NumForwards

\* no call sends more requests than it has attempts
MaxSent == max_retries

\* the upstream requests sent with key id in the 60 seconds up to time t, by all
\* calls
SentInWindow(id, t) ==
    {c \in {[call |-> f, i |-> i] : f \in FTasks, i \in 1..MaxSent} :
        /\ c.i <= Len(fwd[c.call].sent)
        /\ fwd[c.call].sent[c.i].id = id
        /\ fwd[c.call].sent[c.i].at > t - Window
        /\ fwd[c.call].sent[c.i].at <= t}

\* C18 as stated: however the calls interleave, no key is used for more upstream
\* requests within 60 seconds than its rpm_limit.
C18_Original ==
    \A i \in 1..Len(keys) :
        Cardinality(SentInWindow(keys[i].id, now)) <= keys[i].rpm_limit

(***************************************************************************)
(* Properties of the upstream requests, checked under SpecReq.             *)
(***************************************************************************)
\* what a request is apart from the credentials its caller put into it: its
\* headers without x-goog-api-key and its query without the fields named key
\* (written as such or percent-encoded)
CallerKeyField(name) == name \in {"key", "%6Bey"}

Rest(request) ==
    Inbound(SelectSeq(request.headers, LAMBDA h : h.name # "x-goog-api-key"),
            SelectSeq(request.query, LAMBDA p : ~CallerKeyField(p.name)))

CredentialHeaders(o) == {i \in 1..Len(o.headers) : o.headers[i].name = "x-goog-api-key"}

\* C19: every upstream request carries x-goog-api-key once, with the secret of the
\* key chosen for the attempt, and no query field named key; a request that differs
\* from the inbound one only in the caller's credentials would have produced the
\* same upstream request.
C19_OnlyPoolCredentialSent ==
    \A t \in FTasks : \A n \in 1..Len(fwd[t].sent) :
        LET o == fwd[t].sent[n]
        IN /\ Cardinality(CredentialHeaders(o)) = 1
           /\ \A i \in CredentialHeaders(o) : o.headers[i].value = o.key
           /\ \E i \in 1..Len(keys) : keys[i].id = o.id /\ keys[i].key = o.key
           /\ fwd[t].log[CHOOSE i \in Positions(t, {"request"}) :
                  Cardinality({j \in Positions(t, {"request"}) : j <= i}) = n].id = o.id
           /\ \A i \in 1..Len(o.params) : o.params[i].name # "key"
           /\ \A other \in Requests :
                  Rest(other) = Rest(fwd[t].request) =>
                      Outbound(other, o.id, o.key, o.at) = o

\* a call whose request came with an x-goog-api-key header and a key field has
\* sent two attempts with the secrets of two keys
C19_Witness ==
    \E t \in FTasks :
        /\ fwd[t].request # Rest(fwd[t].request)
        /\ \E i \in 1..Len(fwd[t].request.query) : fwd[t].request.query[i].name = "key"
        /\ Len(fwd[t].sent) = 2
        /\ fwd[t].sent[1].key # fwd[t].sent[2].key

(***************************************************************************)
(* Pass-through of the upstream's answer, checked under SpecOne.           *)
(***************************************************************************)
\* C20: when a non-streaming attempt is answered with a status other than 429, the
\* call charges the key, returns that response with its status and body, makes no
\* further attempt and does not call record_error.
C20_OtherStatusPassedThrough ==
    \A t \in FTasks : \A i \in Positions(t, {"response"}) :
        (~fwd[t].stream /\ fwd[t].log[i].status # 429) =>
            LET e == fwd[t].log[i]
            IN /\ fwd[t].log[i - 1] = EvRequest(e.id)
               /\ Follows(t, i, <<EvCharge(e.id)>>)
               /\ Len(fwd[t].log) = i + 1
               /\ fwd[t].pc = "done"
               /\ fwd[t].response.status = e.status
               /\ fwd[t].response.body = e.body
               /\ fwd[t].response.retry_after = 0

\* a call has returned the upstream's 503 of its first attempt, whose body speaks
\* of a daily limit; the key has no failure recorded
C20_Witness ==
    \E t \in FTasks :
        /\ ~fwd[t].stream /\ fwd[t].pc = "done"
        /\ Len(fwd[t].sent) = 1
        /\ fwd[t].response.status = 503
        /\ ClassifiedDaily(fwd[t].response.body)
        /\ \A i \in 1..Len(keys) :
              keys[i].consecutive_failures = 0 /\ keys[i].status = "active"

(***************************************************************************)
(* The streaming path, checked under SpecOne.                              *)
(***************************************************************************)
\* the request carries the query flag alt=sse
AsksStream(request) ==
    \E i \in 1..Len(request.query) : request.query[i] = Pair("alt", "sse")

\* C21: a call whose request carries alt=sse calls select_key once, sends at most
\* one upstream request and never retries it, whatever the upstream's status and
\* whether or not the stream breaks; it calls record_request once, right after the
\* upstream stream is opened and before any chunk is relayed, and relaying chunks
\* or ending the stream changes no key.
C21_StreamingNotRetried ==
    /\ [](\A t \in FTasks :
            (fwd[t].pc # "idle" /\ AsksStream(fwd[t].request)) =>
                /\ fwd[t].attempt = 0
                /\ fwd[t].selects = 1
                /\ Cardinality(Positions(t, {"select_key"})) = 1
                /\ Len(fwd[t].sent) <= 1
                /\ Cardinality(Positions(t, {"request"})) = Len(fwd[t].sent)
                /\ Positions(t, {"record_error", "sleep"}) = {}
                /\ Cardinality(Outcomes(t)) <= 1
                /\ Cardinality(Positions(t, {"record_request"}))
                       = Cardinality(Positions(t, {"response"}))
                /\ \A i \in Positions(t, {"response"}) :
                      /\ fwd[t].log[i - 1] = EvRequest(fwd[t].log[i].id)
                      /\ Follows(t, i, <<EvCharge(fwd[t].log[i].id)>>)
                      /\ Len(fwd[t].log) = i + 1
                /\ (fwd[t].pc = "relay" \/ fwd[t].chunks > 0) =>
                       Cardinality(Positions(t, {"record_request"})) = 1)
    /\ [][\A t \in FTasks :
            (AsksStream(fwd[t].request) /\ fwd[t].pc = "relay") =>
                /\ keys' = keys
                /\ fwd'[t].log = fwd[t].log
                /\ fwd'[t].sent = fwd[t].sent
                /\ fwd'[t].pc \in {"relay", "done"}]_vars

\* a streaming call has ended after relaying a chunk, with one record_request in
\* its log and its key charged once
C21_Witness ==
    \E t \in FTasks :
        /\ AsksStream(fwd[t].request) /\ fwd[t].pc = "done"
        /\ fwd[t].chunks = MaxChunks
        /\ Cardinality(Positions(t, {"record_request"})) = 1
        /\ \E i \in 1..Len(keys) :
              keys[i].id = fwd[t].selected /\ keys[i].rpd_used = 1

(***************************************************************************)
(* Properties of add_key, remove_key and of calls with an unknown id,      *)
(* checked under Spec.                                                     *)
(***************************************************************************)
SecretInPool(api_key) == \E i \in 1..Len(keys) : keys[i].key = api_key

\* C22: add_key with a secret that a key of the pool already has raises the
\* duplicate error and changes nothing: no key is added and none is modified.
C22_DuplicateRejected ==
    [][(op'.name = "add_key" /\ SecretInPool(op'.key)) =>
          /\ op'.flag
          /\ ret' = NoKey
          /\ keys' = keys
          /\ last_reset_date' = last_reset_date]_vars

\* add_key has been refused the secret of the second of two keys, both of which
\* have been used
C22_Witness ==
    /\ Returned("add_key") /\ op.flag
    /\ Len(keys) = 2
    /\ keys[2].key = op.key /\ keys[1].key # op.key
    /\ keys[1].rpd_used > 0 /\ keys[2].rpd_used > 0

\* the largest id of the pool, 0 for an empty pool
LargestId ==
    IF keys = <<>> THEN 0
    ELSE CHOOSE n \in 1..MaxNewId :
            /\ \E i \in 1..Len(keys) : keys[i].id = n
            /\ \A i \in 1..Len(keys) : keys[i].id <= n

\* C23: an add_key call that does not raise returns the id one above the largest id
\* of the pool (1 for an empty pool); that id is not in the pool before the call,
\* and afterwards it is the id of an active key with rpd_used = 0,
\* consecutive_failures = 0, no timestamps, the secret and the limits given, all
\* other keys being as they were.
C23_AddKeyFreshId ==
    [][(op'.name = "add_key" /\ ~op'.flag) =>
          /\ ret' = LargestId + 1
          /\ ~InPool(ret')
          /\ Len(keys') = Len(keys) + 1
          /\ \A i \in 1..Len(keys) : keys'[i] = keys[i]
          /\ keys'[Len(keys')] =
                [id |-> ret', key |-> op'.key,
                 rpd_limit |-> op'.rpd_limit, rpm_limit |-> op'.rpm_limit,
                 rpd_used |-> 0, rpm_timestamps |-> <<>>, consecutive_failures |-> 0,
                 status |-> "active"]
          /\ last_reset_date' = last_reset_date]_vars

\* add_key has returned key_3 on a pool from which key_1 had been removed: the
\* pool held one key, key_2, which has been used
C23_Witness ==
    /\ Returned("add_key") /\ ~op.flag
    /\ ret = 3
    /\ Len(keys) = 2
    /\ keys[1].id = 2 /\ keys[2].id = 3
    /\ keys[1].rpd_used > 0 /\ keys[1].rpm_limit # keys[2].rpm_limit

\* C24: remove_key(id) returns True and deletes exactly that key when the id is
\* in the pool, and returns False and changes nothing when it is not; no other key
\* and not last_reset_date is modified in either case.
C24_RemoveKeyExact ==
    [][\A key_id \in KeyIds :
          op' = [name |-> "remove_key", id |-> key_id, flag |-> FALSE] =>
              /\ last_reset_date' = last_reset_date
              /\ IF InPool(key_id)
                 THEN /\ ret' = 1
                      /\ Len(keys') = Len(keys) - 1
                      /\ ~StillInPool(key_id)
                      /\ \A i \in 1..Len(keys) :
                            keys[i].id # key_id =>
                                \E j \in 1..Len(keys') : keys'[j] = keys[i]
                 ELSE /\ ret' = 0
                      /\ keys' = keys]_vars

\* remove_key has deleted the first of two keys and left the second, which has
\* been used
C24_Witness ==
    /\ Returned("remove_key") /\ ret = 1
    /\ op.id = 1
    /\ Len(keys) = 1
    /\ keys[1].id = 2 /\ keys[1].rpd_used > 0

\* C25: record_request(id) and record_error(id, _) called with an id that is not
\* in the pool raise nothing and leave every key and last_reset_date unchanged.
C25_UnknownIdNoop ==
    [][\A key_id \in KeyIds :
          (op'.name \in {"record_request", "record_error"} /\ op'.id = key_id
              /\ ~InPool(key_id)) =>
                  /\ keys' = keys
                  /\ last_reset_date' = last_reset_date
                  /\ ret' = NoKey]_vars

\* record_error(id, True) has returned for an id removed from a pool that still
\* holds a used, active key
C25_Witness ==
    /\ Returned("record_error") /\ op.flag
    /\ ~InPool(op.id)
    /\ Len(keys) = 1
    /\ keys[1].status = "active" /\ keys[1].rpd_used > 0

(***************************************************************************)
(* A call in flight while keys are removed and added, and the admin        *)
(* handlers, checked under SpecAdmin.                                      *)
(***************************************************************************)
\* the record_request and record_error calls of call t
Recorded(log) == {i \in 1..Len(log) : log[i].ev \in {"record_request", "record_error"}}

\* the key of the pool with the id that call t selected is not the key it
\* selected: it has another secret
Replaced(t) ==
    \E i \in 1..Len(keys) :
        keys[i].id = fwd[t].selected /\ keys[i].key # fwd[t].secret

\* C26 as stated: when the key c that a call selected has been removed while the
\* call was in flight, whatever keys were added since, the call's later
\* record_request and record_error calls for c modify no key of the pool.
C26_Original ==
    [][\A t \in FTasks :
          (Recorded(fwd'[t].log) # Recorded(fwd[t].log) /\ Replaced(t)) =>
              \A i \in 1..Len(keys) :
                  keys[i].id = fwd[t].selected =>
                      \E j \in 1..Len(keys') : keys'[j] = keys[i]]_vars

\* C29 as stated: every snapshot taken through `await key_manager.get_status()`
\* returns total = the number of keys, exhausted = the number of exhausted keys and
\* available = the number of keys that select_key would take for eligible, and
\* modifies nothing.
C29_Original ==
    [][op'.name = "get_all_status" =>
          /\ ~op'.flag
          /\ ret' = [total_keys |-> Len(keys),
                     available_keys |-> Cardinality({i \in 1..Len(keys) : Eligible(keys[i])}),
                     exhausted_keys |-> Cardinality({i \in 1..Len(keys) :
                                                        keys[i].status = "exhausted"}),
                     next_reset |-> last_reset_date + 1]
          /\ keys' = keys
          /\ last_reset_date' = last_reset_date]_vars

\* C30 as stated: the reset handler completes without an error, and after it every
\* key has rpd_used = 0.
C30_Original ==
    [][op'.name = "reset_counters" =>
          /\ ~op'.flag
          /\ \A i \in 1..Len(keys') : keys'[i].rpd_used = 0]_vars

(***************************************************************************)
(* Properties of the critical sections, checked under SpecCrit.            *)
(***************************************************************************)
\* what the critical section that task t runs does to the pool it found, and
\* what it returns, when it runs alone from its first statement to its last
Alone(t) ==
    LET c == crit[t]
        was == c.seen
        same == [keys |-> was.keys, last_reset_date |-> was.last_reset_date,
                 result |-> NoKey, raised |-> FALSE]
    IN CASE c.section = "record_request" ->
                [same EXCEPT !.keys = record_request(was.keys, c.call.id, was.now)]
         [] c.section = "record_error" ->
                [same EXCEPT !.keys = record_error(was.keys, c.call.id, c.call.flag)]
         [] c.section = "check_and_reset_daily" ->
                LET p == check_and_reset_daily(was.keys, was.last_reset_date, c.date)
                IN [same EXCEPT !.keys = p.keys, !.last_reset_date = p.last_reset_date]
         [] c.section = "select_key" ->
                [same EXCEPT !.keys = Prune(was.keys, was.now),
                             !.result = select_locked(Prune(was.keys, was.now), was.now)]
         [] c.section = "add_key" ->
                IF KeyExists(was.keys, c.call.key)
                THEN [same EXCEPT !.raised = TRUE]
                ELSE [same EXCEPT !.keys = add_key(was.keys, c.call.key, c.call.rpd_limit,
                                                   c.call.rpm_limit),
                                  !.result = next_key_id(was.keys)]
         [] c.section = "remove_key" ->
                [same EXCEPT !.keys = remove_key(was.keys, c.call.id),
                             !.result = IF HasKey(was.keys, c.call.id) THEN 1 ELSE 0]

\* C27: at most one task is inside a critical section of the pool at any time and
\* it holds the lock; the pool changes only by a statement of that task; and as a
\* section is left the pool and the result are what the whole operation makes of
\* the pool that the section found on entering, so that no operation sees another
\* one half applied.
C27_CriticalSectionsSerialized ==
    /\ [](\A t \in Callers :
            /\ Inside(t) => lock = t
            /\ \A u \in Callers : (Inside(t) /\ Inside(u)) => t = u
            /\ crit[t].pc = "release" =>
                  /\ keys = Alone(t).keys
                  /\ last_reset_date = Alone(t).last_reset_date
                  /\ crit[t].result = Alone(t).result
                  /\ crit[t].raised = Alone(t).raised)
    /\ [][(keys' # keys \/ last_reset_date' # last_reset_date) =>
            \E t \in Callers :
                /\ Inside(t) /\ lock = t /\ lock' = t
                /\ crit'[t].pc # crit[t].pc
                /\ \A u \in Callers \ {t} : crit'[u] = crit[u]]_vars

\* a task has charged a key to its limit and stands at the release, while the
\* other task, which has called select_key on a later day, waits for the lock
C27_Witness ==
    \E t \in Callers, u \in Callers :
        /\ crit[t].section = "record_request" /\ crit[t].pc = "release"
        /\ \E i \in 1..Len(keys) :
              keys[i].id = crit[t].call.id /\ keys[i].status = "exhausted"
        /\ crit[u].call.name = "select_key" /\ crit[u].pc = "acquire"
        /\ today > last_reset_date

(***************************************************************************)
(* The lock and the awaits of proxy_request, checked under SpecHold.       *)
(***************************************************************************)
\* call t awaits the upstream's answer or sleeps before a retry
Suspended(t) == fwd[t].pc \in {"http", "sleep"}

\* task t has called a KeyManager coroutine that has not returned yet
Calling(t) == crit[t].pc \notin {"idle", "done"}

\* C28: no task holds the lock of the pool while it awaits the upstream or sleeps
\* before a retry: the lock is held only by a task that stands at a statement
\* inside a critical section; so while a call is suspended, a coroutine of the key
\* manager that another task has called can enter its critical section and take
\* its next statement, up to its return.
C28_LockNotHeldWhileSuspended ==
    \A t \in Callers :
        /\ lock = t => (Inside(t) /\ ~Suspended(t))
        /\ Suspended(t) => (lock # t /\ ~Calling(t))
        /\ \A u \in Callers \ {t} :
              (Suspended(t) /\ Calling(u)) =>
                  /\ crit[u].pc = "acquire" => lock = NoTask
                  /\ ENABLED CritStep(u)

\* a call sleeps after a per-minute 429 while the other task, which has called
\* remove_key for the key that the call holds, has deleted it and stands at the
\* release
C28_Witness ==
    \E t \in Callers, u \in Callers :
        /\ fwd[t].pc = "sleep"
        /\ crit[u].call.name = "remove_key" /\ crit[u].call.id = fwd[t].selected
        /\ crit[u].pc = "release" /\ lock = u
        /\ ~ \E i \in 1..Len(keys) : keys[i].id = fwd[t].selected

(***************************************************************************)
(* Properties of what one proxy_request call charges, checked under        *)
(* SpecOne: the call is the only user of a pool that starts with no usage  *)
(* and no failure recorded.                                                *)
(***************************************************************************)
\* the upstream requests of call t made with key id that were answered, and those
\* of them answered 429
AnsweredWith(t, id) == {i \in Positions(t, {"response"}) : fwd[t].log[i].id = id}

LimitedWith(t, id) == {i \in AnsweredWith(t, id) : fwd[t].log[i].status = 429}

\* call t has returned the upstream's answer, every attempt before having been
\* answered 429
AnsweredAfterLimits(t) ==
    /\ ~fwd[t].stream
    /\ fwd[t].pc = "done"
    /\ fwd[t].response.kind = "upstream"
    /\ Positions(t, {"raise"}) = {}

\* no other call has been made
OnlyCall(t) == \A u \in FTasks \ {t} : fwd[u].pc = "idle"

\* a select_key call of call t ran the daily reset
ResetDuring(t) == \E i \in Positions(t, {"select_key"}) : fwd[t].log[i].flag

\* every answered attempt of call t has added 1 to the rpd_used of its key, and
\* every attempt answered 429 has added 1 to its consecutive_failures as well
ChargedPerAnswer(t) ==
    \A i \in 1..Len(keys) :
        /\ keys[i].rpd_used = Cardinality(AnsweredWith(t, keys[i].id))
        /\ Positions(t, {"raise"}) = {} =>
              keys[i].consecutive_failures = Cardinality(LimitedWith(t, keys[i].id))

\* C31 as stated: every attempt of a non-streaming call that is answered, 429s
\* included, adds 1 to its key's rpd_used, and one answered 429 adds 1 to its
\* consecutive_failures too (read off the counters up to the first daily reset);
\* a call that gets k 429s and then another response raises the sum of rpd_used
\* over the pool by k + 1.
C31_Original ==
    \A t \in FTasks :
        OnlyCall(t) =>
            /\ (~fwd[t].stream /\ ~ResetDuring(t)) => ChargedPerAnswer(t)
            /\ AnsweredAfterLimits(t) =>
                  SumUsed(keys) = Cardinality(Positions(t, {"response"}))

\* C31: the same, the sum being raised by k + 1 as long as no select_key call of
\* the forward has run the daily reset.
C31_EveryAnswerCharged ==
    \A t \in FTasks :
        (OnlyCall(t) /\ ~ResetDuring(t)) =>
            /\ ~fwd[t].stream => ChargedPerAnswer(t)
            /\ AnsweredAfterLimits(t) =>
                  SumUsed(keys) = Cardinality(Positions(t, {"response"}))

\* a call has returned a 200 after one 429: two requests are charged, for one
\* answer handed to the caller
C31_Witness ==
    \E t \in FTasks :
        /\ OnlyCall(t) /\ AnsweredAfterLimits(t) /\ ~ResetDuring(t)
        /\ fwd[t].response.status = 200
        /\ Cardinality(Positions(t, {"response"})) = 2
        /\ SumUsed(keys) = 2
        /\ \E i \in 1..Len(keys) : keys[i].consecutive_failures = 1

(***************************************************************************)
(* Properties of a key's fields over the pool's operations, checked under  *)
(* Spec.                                                                   *)
(***************************************************************************)
\* the ids a key of the pool may have
PoolIds == 1..MaxNewId

\* the step is a call that runs the daily reset: check_and_reset_daily, or the
\* select_key that calls it, made when the date is after last_reset_date
ResetRuns ==
    /\ op'.name \in {"check_and_reset_daily", "select_key"}
    /\ today > last_reset_date

\* C32: a key that is exhausted is still exhausted after any call but one that runs
\* the daily reset, and no select_key call returns it unless that call runs the
\* daily reset first.
C32_ExhaustedUntilReset ==
    [][\A key_id \in PoolIds :
          (InPool(key_id) /\ Before(key_id).status = "exhausted") =>
              /\ (StillInPool(key_id) /\ After(key_id).status # "exhausted") => ResetRuns
              /\ (op'.name = "select_key" /\ ret' = key_id) => ResetRuns]_vars

\* select_key has returned, on a later day, a key with a daily limit of 1 that had
\* been charged (and so exhausted) less than a minute before
C32_Witness ==
    /\ Returned("select_key") /\ ret # NoKey
    /\ last_reset_date = today /\ today > 0
    /\ \E i \in 1..Len(keys) :
          /\ keys[i].id = ret
          /\ keys[i].rpd_limit = 1
          /\ keys[i].rpm_timestamps # <<>>
          /\ keys[i].status = "active"

\* the step is a record_error call naming key_id
FailureRecorded(key_id) == op'.name = "record_error" /\ op'.id = key_id

\* C33: consecutive_failures of a key of the pool goes up by exactly 1 with every
\* record_error call naming it, is 0 after a call that runs the daily reset, and is
\* left as it was by every other call: record_request, a select_key or
\* check_and_reset_daily call on the day of the last reset, record_error naming
\* another key, add_key and remove_key of another key.
C33_FailuresCounted ==
    [][\A key_id \in PoolIds :
          (InPool(key_id) /\ StillInPool(key_id)) =>
              /\ FailureRecorded(key_id) =>
                    After(key_id).consecutive_failures
                        = Before(key_id).consecutive_failures + 1
              /\ ResetRuns => After(key_id).consecutive_failures = 0
              /\ (~FailureRecorded(key_id) /\ ~ResetRuns) =>
                    After(key_id).consecutive_failures
                        = Before(key_id).consecutive_failures]_vars

\* record_request has just charged a key that has a failure recorded
C33_Witness ==
    /\ Returned("record_request")
    /\ \E i \in 1..Len(keys) :
          /\ keys[i].id = op.id
          /\ keys[i].rpd_used > 0
          /\ keys[i].consecutive_failures > 0

\* ts is what is left of old once its entries of 60 seconds ago and before are
\* dropped: the entries are in the order of their appending, so it is the end of
\* old from the first entry newer than that
PrunedFrom(old, ts) ==
    \E n \in 0..Len(old) :
        /\ ts = SubSeq(old, n + 1, Len(old))
        /\ \A j \in 1..n : old[j] <= now - Window
        /\ \A j \in n + 1..Len(old) : old[j] > now - Window

AllExhausted ==
    /\ keys # <<>>
    /\ \A i \in 1..Len(keys) :
          /\ keys[i].status = "exhausted"
          /\ keys[i].rpd_limit > 0 /\ keys[i].rpm_limit > 0
    /\ \E i \in 1..Len(keys) : WindowCount(keys[i]) < keys[i].rpm_limit

\* C35: a select_key call made when every key of the pool is exhausted and the
\* date is after last_reset_date runs the daily reset (last_reset_date becomes
\* today, every key is active with rpd_used = 0) and returns a key, not None.
C35_ExhaustionEndsWithTheDay ==
    [][(op'.name = "select_key" /\ AllExhausted /\ today > last_reset_date) =>
          /\ last_reset_date' = today
          /\ \A i \in 1..Len(keys') :
                keys'[i].status = "active" /\ keys'[i].rpd_used = 0
          /\ ret' # NoKey
          /\ \E i \in 1..Len(keys') : keys'[i].id = ret']_vars

\* select_key has returned a key of a pool of two keys that both had spent their
\* daily limit of 1 within the last minute, on the day before
C35_Witness ==
    /\ Returned("select_key") /\ ret # NoKey
    /\ last_reset_date = today /\ today > 0
    /\ Len(keys) = 2
    /\ \A i \in 1..Len(keys) :
          /\ keys[i].rpd_limit = 1
          /\ keys[i].rpm_timestamps # <<>>
          /\ keys[i].rpd_used = 0

\* C36 as stated: in every reachable state no two keys of the pool hold the same
\* secret, whatever config.api_keys was and whatever add_key and remove_key calls
\* were made.
C36_Original ==
    \A i, j \in 1..Len(keys) : i # j => keys[i].key # keys[j].key

\* the readings of the clock and of the calendar from now on
LaterTimes == {t \in {k * (Window \div 2) : k \in 0..MaxTicks} : t >= now}

LaterDays == {d \in 0..MaxDay : d >= today}

\* what a select_key call made at time t on day d returns when no call has changed
\* the pool since the step
SelectedAgain(t, d) == select_key(keys', last_reset_date', d, t).result

\* the number of timestamps of key k newer than t - 60
WindowCountAt(k, t) ==
    Cardinality({j \in 1..Len(k.rpm_timestamps) : k.rpm_timestamps[j] > t - Window})

\* between now and time t, day d, the date has not gone past last_reset_date and
\* no timestamp has left the minute window of its key
NothingAged(t, d) ==
    /\ d <= last_reset_date'
    /\ \A i \in 1..Len(keys') : WindowCountAt(keys'[i], t) = WindowCountAt(keys'[i], now)

\* select_key leaves rpd_used, status and consecutive_failures of every key as
\* they were, or as the daily reset makes them when the date has moved on, and
\* adds no timestamp
SelectReservesNothing ==
    op'.name = "select_key" =>
        /\ Len(keys') = Len(keys)
        /\ \A i \in 1..Len(keys) :
              /\ keys'[i].id = keys[i].id
              /\ keys'[i].rpd_used = AtSelection(keys[i]).rpd_used
              /\ keys'[i].status = AtSelection(keys[i]).status
              /\ keys'[i].consecutive_failures = AtSelection(keys[i]).consecutive_failures
              /\ PrunedFrom(keys[i].rpm_timestamps, keys'[i].rpm_timestamps)

\* C37 as stated: select_key changes no key's rpd_used, status or
\* consecutive_failures and adds no timestamp, apart from the reset check and the
\* pruning, so that a second select_key call, made at any later time with no change
\* of the pool in between, returns the same key.
C37_Original ==
    [][/\ SelectReservesNothing
       /\ op'.name = "select_key" =>
             \A t \in LaterTimes, d \in LaterDays : SelectedAgain(t, d) = ret']_vars

\* C37: the same, the second call returning the same key when it follows at once,
\* or later with the date not past last_reset_date and no timestamp having left
\* its minute window in between.
C37_SelectReservesNothing ==
    [][/\ SelectReservesNothing
       /\ (op.name = "select_key" /\ op'.name = "select_key") =>
             (ret' = ret /\ keys' = keys)
       /\ op'.name = "select_key" =>
             \A t \in LaterTimes, d \in LaterDays :
                 NothingAged(t, d) => SelectedAgain(t, d) = ret']_vars

\* select_key has returned a key that has one request a day, and left it unused
\* and active, with its minute window empty
C37_Witness ==
    /\ Returned("select_key") /\ ret # NoKey
    /\ \E i \in 1..Len(keys) :
          /\ keys[i].id = ret
          /\ keys[i].rpd_limit = 1 /\ keys[i].rpd_used = 0
          /\ keys[i].rpm_timestamps = <<>>
          /\ keys[i].status = "active"
    /\ \E i \in 1..Len(keys) : keys[i].id # ret /\ keys[i].rpd_used > 0

\* call t has sent an upstream request and waits for its answer
RequestInFlight(t) == fwd[t].pc \in {"http", "stream_connect"}

\* C38 as stated: in a call running alone, with no change of date, every upstream
\* request is sent with a key that, as it is sent, is active with
\* rpd_used < rpd_limit.
C38_Original ==
    \A t \in FTasks :
        (OnlyCall(t) /\ RequestInFlight(t) /\ today = 0) =>
            \E i \in 1..Len(keys) :
                /\ keys[i].id = fwd[t].selected
                /\ keys[i].status = "active"
                /\ keys[i].rpd_used < keys[i].rpd_limit

\* a step of call t, which is streaming and has sent its request
StreamingStep(t) ==
    /\ fwd[t].stream
    /\ fwd[t].pc \in {"stream_connect", "relay"}
    /\ fwd'[t] # fwd[t]

\* the step of call t is its record_request: the key sent with gets one more
\* rpd_used and timestamp and is exhausted if that spends it, nothing else changes
ChargesOnce(t) ==
    /\ Positions(t, {"record_request"}) = {}
    /\ Len(fwd'[t].log) = Len(fwd[t].log) + 2
    /\ fwd'[t].log[Len(fwd'[t].log)] = EvCharge(fwd[t].selected)
    /\ \A i \in 1..Len(keys) :
          IF keys[i].id = fwd[t].selected
          THEN /\ keys'[i].rpd_used = keys[i].rpd_used + 1
               /\ keys'[i].status \in {keys[i].status, "exhausted"}
               /\ keys'[i].status # keys[i].status => keys'[i].rpd_used >= keys'[i].rpd_limit
          ELSE keys'[i] = keys[i]

\* C39: once a streaming call has sent its request, whatever status the upstream
\* answers (a 429 included) and whether the connection or the stream fails, the
\* call never calls record_error: consecutive_failures of every key stays as it was,
\* and the pool changes in one step only, the one record_request of the call.
C39_StreamingRecordsNoFailure ==
    [][\A t \in FTasks :
          StreamingStep(t) =>
              /\ \A i \in 1..Len(fwd'[t].log) : fwd'[t].log[i].ev # "record_error"
              /\ Len(keys') = Len(keys)
              /\ \A i \in 1..Len(keys) :
                    keys'[i].consecutive_failures = keys[i].consecutive_failures
              /\ keys' # keys => ChargesOnce(t)]_vars

\* a streaming call has ended on a 429 of the upstream: its key is charged and has
\* no failure recorded
C39_Witness ==
    \E t \in FTasks :
        /\ fwd[t].stream /\ fwd[t].pc = "done"
        /\ \E i \in Positions(t, {"response"}) : fwd[t].log[i].status = 429
        /\ \E i \in 1..Len(keys) :
              /\ keys[i].id = fwd[t].selected
              /\ keys[i].rpd_used = 1
              /\ keys[i].consecutive_failures = 0
              /\ keys[i].status = "active"

\* key k is active with rpd_used < rpd_limit, and its minute window, which its
\* last record_request had filled, has had no record_request for 60 seconds
WindowRanOut(k) ==
    /\ k.status = "active"
    /\ k.rpd_used < k.rpd_limit
    /\ k.rpm_limit > 0
    /\ Len(k.rpm_timestamps) >= k.rpm_limit
    /\ \A j \in 1..Len(k.rpm_timestamps) : k.rpm_timestamps[j] <= now - Window

\* the daily quota key k has left
Remaining(k) == k.rpd_limit - k.rpd_used

\* C40: a key that is active with rpd_used < rpd_limit and whose minute window was
\* full is eligible again for a select_key call made 60 seconds or more after the
\* last record_request on it: the call empties its window and returns it, or a key
\* that goes before it (more daily quota left, or as much and inserted earlier).
C40_WindowReopens ==
    [][op'.name = "select_key" =>
          \A i \in 1..Len(keys) :
              WindowRanOut(keys[i]) =>
                  /\ keys'[i].id = keys[i].id
                  /\ keys'[i].rpm_timestamps = <<>>
                  /\ \E r \in 1..Len(keys') :
                        /\ keys'[r].id = ret'
                        /\ \/ Remaining(keys'[r]) > Remaining(keys'[i])
                           \/ Remaining(keys'[r]) = Remaining(keys'[i]) /\ r <= i]_vars

\* select_key has returned the only key of the pool, which allows one request a
\* minute and was charged a minute ago
C40_Witness ==
    /\ Returned("select_key")
    /\ now = Window /\ last_reset_date = 0
    /\ Len(keys) = 1
    /\ ret = keys[1].id
    /\ keys[1].rpm_limit = 1
    /\ keys[1].rpd_used = 1
    /\ keys[1].rpm_timestamps = <<>>

====
